---------------------------- MODULE Spec2Model ----------------------------
(***************************************************************************)
(* Model of the Bitbucket report submitters of devops-linux-jenkins:       *)
(*   python/Lint_groovy_report.py          (prefix LG_)                    *)
(*   python/linting_error_report.py        (prefix LE_)                    *)
(*   python/npm_audit.py                   (prefix NA_)                    *)
(*   python/create_bitbucket_test_report.py (prefix TR_)                   *)
(* One run of one script is one behaviour: the script and its input files  *)
(* are chosen in Init, the environment variables are assumed to be set,    *)
(* and every HTTP call non-deterministically succeeds, is answered with a  *)
(* non-2xx status, or fails without any response.                          *)
(***************************************************************************)
EXTENDS Integers, Sequences, FiniteSets, TLC

VARIABLES
    script,        \* which of the four scripts this run executes
    input,         \* the files the run is started on
    pc,            \* position of the run in the script
    vulnerabilities, \* npm_audit: value returned by categorize_vulnerabilities
    annotations,   \* the annotation list built last
    external_ids,  \* the lint scripts' registry of emitted ids
    uuids,         \* number of uuid4() values drawn so far
    testmode,      \* create_bitbucket_test_report: index into mode
    idx,           \* number of batches of the current list already POSTed
    requests,      \* every HTTP request issued, in order, with its outcome
    stdout,        \* the diagnostics printed so far
    exit_code,     \* exit status of the process, NotExited while it runs
    returned       \* value returned by the function a run calls directly

vars == <<script, input, pc, vulnerabilities, annotations, external_ids,
          uuids, testmode, idx, requests, stdout, exit_code,
          returned>>

-----------------------------------------------------------------------------
(* Bounds of the model *)

\* files (documents) per lint report
MaxFiles == 2
\* errors (changes) per lint report, over all its files
MaxErrors == 2
\* how far the long lists go beyond the batch size and the total limit
MaxOver == 1
\* packages per audit document, and advisories per audit document
MaxPkgs == 2
MaxVia == 2
\* test cases per result file
MaxCases == 2

(* Program constants *)

max_annotations == 1000
batch_size == 100

NotExited == -1
None == "None"

-----------------------------------------------------------------------------
(* Generic helpers *)

\* dict.get(key, default)
get(d, key, default) == IF key \in DOMAIN d THEN d[key] ELSE default

Min(a, b) == IF a < b THEN a ELSE b

SeqsUpTo(S, n) == UNION {[1..k -> S] : k \in 0..n}

\* a sequential loop  for i in lo..hi: acc = Step(acc, i)  evaluated by
\* halving the range, each half being finished (bound to l) before the next
\* one starts
RECURSIVE FoldRange(_, _, _, _)
FoldRange(Step(_, _), lo, hi, acc) ==
    IF lo > hi THEN acc
    ELSE IF lo = hi THEN Step(acc, lo)
    ELSE LET mid == (lo + hi) \div 2
             left == FoldRange(Step, lo, mid, acc)
         IN CHOOSE r \in {FoldRange(Step, mid + 1, hi, l) : l \in {left}} : TRUE

\* concatenation of a sequence of sequences
Flatten(ss) ==
    LET Step(acc, i) == [s |-> acc.s \o ss[i]]
    IN FoldRange(Step, 1, Len(ss), [s |-> <<>>]).s

\* the outcomes of requests.put / requests.post followed by raise_for_status
HttpResults == {"ok", "http_error", "no_response"}

\* the sum of a sequence of numbers
Sum(ns) ==
    LET Step(acc, i) == [n |-> acc.n + ns[i]]
    IN FoldRange(Step, 1, Len(ns), [n |-> 0]).n

\* the lengths of the long annotation lists: around the batch size and
\* around the total limit
LongLens ==
    {n \in 0..(max_annotations + MaxOver) :
        \/ n <= MaxOver
        \/ n >= batch_size - MaxOver /\ n <= batch_size + MaxOver
        \/ n >= max_annotations - MaxOver}

-----------------------------------------------------------------------------
(* Batching, identical in the four scripts *)

\* range(start, stop, step) as the sequence of its values
Range(start, stop, step) ==
    LET n == IF stop <= start THEN 0 ELSE (stop - start + step - 1) \div step
    IN [k \in 1..n |-> start + (k - 1) * step]

\* annotations[i:j] for 0 <= i <= j, clipped to the list as a slice is
Slice(s, i, j) == SubSeq(s, i + 1, Min(j, Len(s)))

\* chunk_annotations with the slice annotations[i:i + batch_size - 1]
chunk_annotations_short(anns, size) ==
    LET starts == Range(0, Len(anns), size)
    IN [k \in 1..Len(starts) |-> Slice(anns, starts[k], starts[k] + size - 1)]

\* chunk_annotations: the sequence of the slices the generator yields
chunk_annotations(anns, size) ==
    LET starts == Range(0, Len(anns), size)
    IN [k \in 1..Len(starts) |-> Slice(anns, starts[k], starts[k] + size)]

\* annotations[:max_annotations]
annotations_to_send(anns) == Slice(anns, 0, max_annotations)

\* the record of one issued request
Request(method, list, n, payload, result) ==
    [method |-> method, list |-> list, batch |-> n, payload |-> payload,
     result |-> result]

-----------------------------------------------------------------------------
(* The project tree the lint scripts search, and the lint reports *)

\* the files under the search root, by their path relative to it; the
\* scripts are run from the search root
TreeFiles == {"a", "a-1"}

\* the file names a lint report may mention
FileNames == {"a", "old/a-1", "x"}

\* os.path.basename on the model's file names
basename(filename) ==
    CASE filename = "old/a-1" -> "a-1"
      [] OTHER -> filename

\* str.lower, letter by letter
UpperCase == "ABCDEFGHIJKLMNOPQRSTUVWXYZ"
LowerCase == "abcdefghijklmnopqrstuvwxyz"

UpperLetters == {SubSeq(UpperCase, i, i) : i \in 1..Len(UpperCase)}
LowerLetters == {SubSeq(LowerCase, i, i) : i \in 1..Len(LowerCase)}

LowerOf ==
    [c \in UpperLetters |->
        LET i == CHOOSE k \in 1..Len(UpperCase) : SubSeq(UpperCase, k, k) = c
        IN SubSeq(LowerCase, i, i)]

lower_char(c) == IF c \in UpperLetters THEN LowerOf[c] ELSE c

\* the letters of word from position i on, in lower case
RECURSIVE lower_from(_, _)
lower_from(word, i) ==
    IF i > Len(word) THEN ""
    ELSE lower_char(SubSeq(word, i, i)) \o lower_from(word, i + 1)

\* str.lower, word being read once
lower(word) == CHOOSE low \in {lower_from(w, 1) : w \in {word}} : TRUE

\* one error of a Groovy/Jenkins lint report
LintErrors ==
    {[line |-> 1, rule |-> r, msg |-> "m", severity |-> "warning"] :
        r \in {"R", "1-R"}}

\* a lint report: a "files" object, i.e. file entries with distinct names
LintFile(S, n) == [name : FileNames, errors : SeqsUpTo(S, n)]

DistinctNames(fs) ==
    \A i, j \in 1..Len(fs) : fs[i].name = fs[j].name => i = j

LintReports(S, nf, ne) ==
    {fs \in SeqsUpTo(LintFile(S, ne), nf) :
        /\ DistinctNames(fs)
        /\ Sum([i \in 1..Len(fs) |-> Len(fs[i].errors)]) <= ne}

\* a long report: one file of the tree with n errors on n different lines
LongLintReport(n) ==
    << [name |-> "a",
        errors |-> [i \in 1..n |->
            [line |-> i, rule |-> "R", msg |-> "m", severity |-> "error"]]] >>

OnDisk(files) == [exists |-> TRUE, files |-> files]
Missing == [exists |-> FALSE, files |-> <<>>]

-----------------------------------------------------------------------------
(* Lint_groovy_report.py *)

LG_get_json_normalized_raises(file) == ~file.exists

LG_find_file_path(filename) ==
    IF filename \in TreeFiles THEN filename
    ELSE IF basename(filename) \in TreeFiles THEN basename(filename)
    ELSE None

\* LG_severity_map with MEDIUM as the default
LG_severity_map_default_medium(sev) ==
    CASE sev = "info" -> "LOW"
      [] sev = "warning" -> "MEDIUM"
      [] sev = "error" -> "HIGH"
      [] OTHER -> "MEDIUM"

LG_severity_map(sev) ==
    CASE sev = "info" -> "LOW"
      [] sev = "warning" -> "MEDIUM"
      [] sev = "error" -> "HIGH"
      [] OTHER -> "LOW"

LG_summary(error) ==
    LET summary == "[" \o error.rule \o "] " \o error.msg
        max_length == 200
    IN IF Len(summary) > max_length
         THEN SubSeq(summary, 1, max_length) \o "..."
         ELSE summary

\* the candidate id  f"{relative_path}-{line_number}-{rule}"
LG_ext_id(relative_path, error) ==
    relative_path \o "-" \o ToString(error.line) \o "-" \o error.rule

\* f"-{uuid.uuid4()}" for the n-th value drawn in the run; every value
\* drawn is different from the ones drawn before
uuid_suffix(n) == "-uuid" \o ToString(n)

\* LG_process_error without the uuid suffix on a seen id
LG_process_error_no_suffix(acc, relative_path, error) ==
    LET cand == LG_ext_id(relative_path, error)
        annotation ==
            [external_id |-> cand,
             annotation_type |-> "CODE_SMELL",
             path |-> relative_path,
             line |-> error.line,
             summary |-> LG_summary(error),
             severity |-> LG_severity_map(lower(get(error, "severity", "")))]
    IN [acc EXCEPT
          !.annotations = Append(@, annotation),
          !.external_ids = @ \cup {cand}]

\* the body of the inner loop of process_annotations for one error
LG_process_error(acc, relative_path, error) ==
    LET cand == LG_ext_id(relative_path, error)
        seen == cand \in acc.external_ids
        ext_id == IF seen THEN cand \o uuid_suffix(acc.uuids + 1) ELSE cand
        annotation ==
            [external_id |-> ext_id,
             annotation_type |-> "CODE_SMELL",
             path |-> relative_path,
             line |-> error.line,
             summary |-> LG_summary(error),
             severity |-> LG_severity_map(lower(get(error, "severity", "")))]
    IN [acc EXCEPT
          !.annotations = Append(@, annotation),
          !.external_ids = IF seen THEN @ ELSE @ \cup {cand},
          !.uuids = IF seen THEN @ + 1 ELSE @]

\* the body of the outer loop of process_annotations for one file
LG_process_file(acc, file) ==
    LET relative_path == LG_find_file_path(file.name)
        Step(a, i) == LG_process_error(a, relative_path, file.errors[i])
    IN IF relative_path = None
         THEN [acc EXCEPT
                 !.stdout = Append(@, "File not found in project: " \o file.name)]
         ELSE FoldRange(Step, 1, Len(file.errors), acc)

\* process_annotations(report_data, search_path, external_ids): the list it
\* returns, with the registry as it leaves it and what it printed
LG_process_annotations(report_data, ids, drawn, out) ==
    LET Step(a, f) == LG_process_file(a, report_data[f])
    IN FoldRange(Step, 1, Len(report_data),
                 [annotations |-> <<>>, external_ids |-> ids,
                  uuids |-> drawn, stdout |-> out])

LG_Inputs ==
    {[groovy |-> g, jenkins |-> j] :
        g \in {Missing} \cup {OnDisk(r) : r \in LintReports(LintErrors, MaxFiles, MaxErrors)},
        j \in {Missing} \cup {OnDisk(r) : r \in LintReports(LintErrors, 1, 1)}}
    \cup {[groovy |-> OnDisk(LongLintReport(n)), jenkins |-> OnDisk(<<>>)] :
            n \in LongLens}

\* lines 111-112: both reports are loaded before anything is sent
LG_Load ==
    /\ script = "Lint_groovy_report" /\ pc = "load"
    /\ IF \/ LG_get_json_normalized_raises(input.groovy)
          \/ LG_get_json_normalized_raises(input.jenkins)
         THEN /\ pc' = "failed"
              /\ exit_code' = 1
              /\ stdout' = Append(stdout, "FileNotFoundError")
         ELSE /\ pc' = "put"
              /\ UNCHANGED <<exit_code, stdout>>
    /\ UNCHANGED <<returned, script, input, vulnerabilities, annotations, external_ids,
                   uuids, testmode, idx, requests>>

\* LG_Put without the exit(1) of its exception handler
LG_Put_no_exit ==
    /\ script = "Lint_groovy_report" /\ pc = "put"
    /\ \E r \in HttpResults :
         requests' = Append(requests, Request("PUT", 0, 0, <<>>, r))
    /\ pc' = "build"
    /\ UNCHANGED <<returned, script, input, vulnerabilities, annotations, external_ids,
                   uuids, testmode, idx, stdout, exit_code>>

\* lines 144-151: the summary PUT
LG_Put ==
    /\ script = "Lint_groovy_report" /\ pc = "put"
    /\ \E r \in HttpResults :
         /\ requests' = Append(requests, Request("PUT", 0, 0, <<>>, r))
         /\ IF r = "ok"
              THEN pc' = "build" /\ UNCHANGED exit_code
              ELSE pc' = "failed" /\ exit_code' = 1
    /\ UNCHANGED <<returned, script, input, vulnerabilities, annotations, external_ids,
                   uuids, testmode, idx, stdout>>

\* lines 153-164: the annotations of both reports, one registry
LG_Build ==
    /\ script = "Lint_groovy_report" /\ pc = "build"
    /\ \E g \in {LG_process_annotations(input.groovy.files, {}, uuids, stdout)} :
       \E j \in {LG_process_annotations(input.jenkins.files, g.external_ids,
                                        g.uuids, g.stdout)} :
          /\ annotations' = g.annotations \o j.annotations
          /\ external_ids' = j.external_ids
          /\ uuids' = j.uuids
          /\ stdout' = j.stdout
    /\ pc' = "post"
    /\ idx' = 0
    /\ UNCHANGED <<returned, script, input, vulnerabilities, testmode, requests, exit_code>>

\* the exit status of the batch loop's exception handler, line 178
LG_batch_error_exit == 1

\* LG_Post without the exit(1) of its exception handler
LG_Post_no_exit ==
    /\ script = "Lint_groovy_report" /\ pc = "post"
    /\ LET batches == chunk_annotations(annotations_to_send(annotations), batch_size)
       IN /\ idx < Len(batches)
          /\ \E r \in HttpResults :
               /\ requests' = Append(requests,
                      Request("POST", 1, idx + 1, batches[idx + 1], r))
               /\ stdout' = Append(stdout,
                      IF r = "ok" THEN "Batch sent successfully"
                                  ELSE "Error with batch")
          /\ idx' = idx + 1
    /\ UNCHANGED <<returned, script, input, vulnerabilities, annotations, external_ids,
                   uuids, testmode, pc, exit_code>>

\* LG_Post retrying a failed batch: the handler logs the error and the same
\* batch is sent again
LG_Post_retry ==
    /\ script = "Lint_groovy_report" /\ pc = "post"
    /\ LET batches == chunk_annotations(annotations_to_send(annotations), batch_size)
       IN /\ idx < Len(batches)
          /\ \E r \in HttpResults :
               /\ requests' = Append(requests,
                      Request("POST", 1, idx + 1, batches[idx + 1], r))
               /\ IF r = "ok"
                    THEN /\ idx' = idx + 1
                         /\ stdout' = Append(stdout, "Batch sent successfully")
                    ELSE /\ stdout' = Append(stdout, "Error with batch")
                         /\ UNCHANGED idx
    /\ UNCHANGED <<returned, script, input, vulnerabilities, annotations, external_ids,
                   uuids, testmode, pc, exit_code>>

\* lines 166-178: one iteration of the batch loop
LG_Post ==
    /\ script = "Lint_groovy_report" /\ pc = "post"
    /\ LET batches == chunk_annotations(annotations_to_send(annotations), batch_size)
       IN /\ idx < Len(batches)
          /\ \E r \in HttpResults :
               /\ requests' = Append(requests,
                      Request("POST", 1, idx + 1, batches[idx + 1], r))
               /\ IF r = "ok"
                    THEN /\ idx' = idx + 1
                         /\ stdout' = Append(stdout, "Batch sent successfully")
                         /\ UNCHANGED <<pc, exit_code>>
                    ELSE /\ pc' = "failed"
                         /\ exit_code' = LG_batch_error_exit
                         /\ stdout' = Append(stdout, "Error with batch")
                         /\ UNCHANGED idx
    /\ UNCHANGED <<returned, script, input, vulnerabilities, annotations, external_ids,
                   uuids, testmode>>

\* the batch loop is exhausted and main() returns
LG_Finish ==
    /\ script = "Lint_groovy_report" /\ pc = "post"
    /\ idx = Len(chunk_annotations(annotations_to_send(annotations), batch_size))
    /\ pc' = "done"
    /\ exit_code' = 0
    /\ UNCHANGED <<returned, script, input, vulnerabilities, annotations, external_ids,
                   uuids, testmode, idx, requests, stdout>>

-----------------------------------------------------------------------------
(* linting_error_report.py *)

\* one entry of FileChanges of the dotnet-format report
FormatChanges ==
    {[LineNumber |-> l, FormatDescription |-> "d"] : l \in {1, 2}}

\* the report is a list of documents; a file name may occur in several
FormatDocument(n) == [FileName : FileNames, FileChanges : SeqsUpTo(FormatChanges, n)]

FormatReports(nf, ne) ==
    {ds \in SeqsUpTo(FormatDocument(ne), nf) :
        Sum([i \in 1..Len(ds) |-> Len(ds[i].FileChanges)]) <= ne}

LongFormatReport(n) ==
    << [FileName |-> "a",
        FileChanges |-> [i \in 1..n |->
            [LineNumber |-> i, FormatDescription |-> "d"]]] >>

LE_Inputs ==
    {[Result |-> res, report |-> f] :
        res \in {"Pass", "Fail"},
        f \in {Missing} \cup {OnDisk(r) : r \in FormatReports(MaxFiles, MaxErrors)}}
    \cup {[Result |-> "Fail", report |-> OnDisk(LongFormatReport(n))] :
            n \in LongLens}

LE_get_json_normalized_raises(file) == ~file.exists

\* find_file_path: only a bare file name equal to a name met by os.walk
LE_find_file_path(filename) ==
    IF filename \in {basename(f) : f \in TreeFiles}
      THEN CHOOSE f \in TreeFiles : basename(f) = filename
      ELSE None

\* the candidate id  f"{relative_path} + {line_number}"
LE_id(relative_path, change) ==
    relative_path \o " + " \o ToString(change.LineNumber)

\* LE_process_change with the uuid suffix appended in both branches
LE_process_change_always_suffix(acc, relative_path, change) ==
    LET cand == LE_id(relative_path, change)
        annotation ==
            [external_id |-> cand \o uuid_suffix(acc.uuids + 1),
             annotation_type |-> "CODE_SMELL",
             path |-> relative_path,
             line |-> change.LineNumber,
             summary |-> change.FormatDescription,
             result |-> "FAILED",
             severity |-> "LOW"]
    IN [acc EXCEPT
          !.annotations = Append(@, annotation),
          !.external_ids = @ \cup {cand},
          !.uuids = @ + 1]

\* lines 151-175: the body of the inner loop for one change
LE_process_change(acc, relative_path, change) ==
    LET cand == LE_id(relative_path, change)
        seen == cand \in acc.external_ids
        id == IF seen THEN cand \o uuid_suffix(acc.uuids + 1) ELSE cand
        annotation ==
            [external_id |-> id,
             annotation_type |-> "CODE_SMELL",
             path |-> relative_path,
             line |-> change.LineNumber,
             summary |-> change.FormatDescription,
             result |-> "FAILED",
             severity |-> "LOW"]
    IN [acc EXCEPT
          !.annotations = Append(@, annotation),
          !.external_ids = IF seen THEN @ ELSE @ \cup {cand},
          !.uuids = IF seen THEN @ + 1 ELSE @]

\* lines 136-175: the body of the outer loop for one document; line 143
\* calls .replace on the value of find_file_path before line 146 tests it,
\* which raises AttributeError when that value is None
LE_process_document(acc, document) ==
    LET relative_path == LE_find_file_path(document.FileName)
        Step(a, i) == LE_process_change(a, relative_path, document.FileChanges[i])
    IN IF acc.raised THEN acc
       ELSE IF relative_path = None
         THEN [acc EXCEPT !.raised = TRUE]
       ELSE LET printed == [acc EXCEPT
                    !.stdout = Append(@, "Processing file: " \o document.FileName)]
            IN IF relative_path = None
                 THEN [printed EXCEPT !.stdout = Append(@, "File Not Found")]
                 ELSE FoldRange(Step, 1, Len(document.FileChanges), printed)

\* lines 130-175: the annotation build loop over the whole report
LE_build_annotations(data, out) ==
    LET Step(a, d) == LE_process_document(a, data[d])
    IN FoldRange(Step, 1, Len(data),
                 [annotations |-> <<>>, external_ids |-> {}, uuids |-> 0,
                  stdout |-> out, raised |-> FALSE])

\* lines 23-48: count_errors on the loaded report, one error per document;
\* file_error_count keeps the files in the order they were first met
LE_count_errors(data) ==
    LET Step(acc, i) ==
            LET file_name == data[i].FileName
                known == \E k \in 1..Len(acc.counts) : acc.counts[k].file = file_name
            IN [total_errors |-> acc.total_errors + 1,
                counts |-> IF known
                           THEN [k \in 1..Len(acc.counts) |->
                                   IF acc.counts[k].file = file_name
                                   THEN [acc.counts[k] EXCEPT !.errors = @ + 1]
                                   ELSE acc.counts[k]]
                           ELSE Append(acc.counts, [file |-> file_name, errors |-> 1])]
        c == FoldRange(Step, 1, Len(data), [total_errors |-> 0, counts |-> <<>>])
        Line(acc, k) == [retstr |-> acc.retstr \o "\n" \o c.counts[k].file
                                    \o " errors = " \o ToString(c.counts[k].errors)]
    IN FoldRange(Line, 1, Len(c.counts),
                 [retstr |-> "Total number of errors: " \o ToString(c.total_errors)]).retstr

\* lines 75-98: the summary report
LE_report(Result, file) ==
    [title |-> "Linting Report",
     details |-> IF Result = "Pass" THEN "0 Formatting errors"
                 ELSE "Formatting Errors Detected",
     report_type |-> "TEST",
     reporter |-> "Jenkins",
     result |-> IF Result = "Pass" THEN "PASSED" ELSE "FAILED",
     data |-> <<[type |-> "TEXT", title |-> "Report Details",
                 value |-> IF Result = "Pass" THEN "No report"
                           ELSE LE_count_errors(file.files)],
                [type |-> "BOOLEAN", title |-> "Linting check passed?",
                 value |-> Result = "Pass"]>>]

\* LE_Load with count_errors called whatever Result is
LE_Load_always_reads ==
    /\ script = "linting_error_report" /\ pc = "load"
    /\ IF LE_get_json_normalized_raises(input.report)
         THEN /\ pc' = "failed"
              /\ exit_code' = 1
              /\ stdout' = Append(stdout, "FileNotFoundError")
         ELSE /\ pc' = "put"
              /\ UNCHANGED <<exit_code, stdout>>
    /\ UNCHANGED <<returned, script, input, vulnerabilities, annotations, external_ids,
                   uuids, testmode, idx, requests>>

\* line 77: count_errors reads the report only when Result is Fail
LE_Load ==
    /\ script = "linting_error_report" /\ pc = "load"
    /\ IF input.Result = "Fail" /\ LE_get_json_normalized_raises(input.report)
         THEN /\ pc' = "failed"
              /\ exit_code' = 1
              /\ stdout' = Append(stdout, "FileNotFoundError")
         ELSE /\ pc' = "put"
              /\ UNCHANGED <<exit_code, stdout>>
    /\ UNCHANGED <<returned, script, input, vulnerabilities, annotations, external_ids,
                   uuids, testmode, idx, requests>>

\* lines 101-111: the summary PUT and the early exit on Pass
LE_Put ==
    /\ script = "linting_error_report" /\ pc = "put"
    /\ \E r \in HttpResults :
         /\ requests' = Append(requests,
                Request("PUT", 0, 0, LE_report(input.Result, input.report), r))
         /\ IF r # "ok"
              THEN pc' = "failed" /\ exit_code' = 1
              ELSE IF input.Result = "Pass"
                THEN pc' = "done" /\ exit_code' = 0
                ELSE pc' = "build" /\ UNCHANGED exit_code
    /\ UNCHANGED <<returned, script, input, vulnerabilities, annotations, external_ids,
                   uuids, testmode, idx, stdout>>

\* lines 130-185: the report is read again and the annotations are built
LE_Build ==
    /\ script = "linting_error_report" /\ pc = "build"
    /\ \E b \in {LE_build_annotations(input.report.files, stdout)} :
          /\ annotations' = b.annotations
          /\ external_ids' = b.external_ids
          /\ uuids' = b.uuids
          /\ IF b.raised
               THEN /\ pc' = "failed"
                    /\ exit_code' = 1
                    /\ stdout' = Append(b.stdout, "AttributeError")
               ELSE /\ pc' = "post"
                    /\ stdout' = b.stdout
                    /\ UNCHANGED exit_code
    /\ idx' = 0
    /\ UNCHANGED <<returned, script, input, vulnerabilities, testmode, requests>>

\* the exit status of the batch loop's exception handler, line 204
LE_batch_error_exit == 0

\* lines 188-204: one iteration of the batch loop
LE_Post ==
    /\ script = "linting_error_report" /\ pc = "post"
    /\ LET batches == chunk_annotations(annotations_to_send(annotations), batch_size)
       IN /\ idx < Len(batches)
          /\ \E r \in HttpResults :
               /\ requests' = Append(requests,
                      Request("POST", 1, idx + 1, batches[idx + 1], r))
               /\ IF r = "ok"
                    THEN /\ idx' = idx + 1
                         /\ stdout' = Append(stdout, "Batch sent successfully")
                         /\ UNCHANGED <<pc, exit_code>>
                    ELSE /\ pc' = "failed"
                         /\ exit_code' = LE_batch_error_exit
                         /\ stdout' = Append(stdout, "Error with batch")
                         /\ UNCHANGED idx
    /\ UNCHANGED <<returned, script, input, vulnerabilities, annotations, external_ids,
                   uuids, testmode>>

\* the batch loop is exhausted and the script ends
LE_Finish ==
    /\ script = "linting_error_report" /\ pc = "post"
    /\ idx = Len(chunk_annotations(annotations_to_send(annotations), batch_size))
    /\ pc' = "done"
    /\ exit_code' = 0
    /\ UNCHANGED <<returned, script, input, vulnerabilities, annotations, external_ids,
                   uuids, testmode, idx, requests, stdout>>

-----------------------------------------------------------------------------
(* npm_audit.py *)

PackageNames == {"p", "p_t"}

\* one entry of a package's "via" list
Advisories ==
    {[severity |-> sv, title |-> t, url |-> "No URL provided"] :
        sv \in {"high", "moderate"}, t \in {"t", "t_t"}}

AuditPackage(n) == [package : PackageNames, via : SeqsUpTo(Advisories, n)]

\* the "vulnerabilities" object: packages with distinct names
AuditReports(np, nv) ==
    {ps \in SeqsUpTo(AuditPackage(nv), Min(np, Cardinality(PackageNames))) :
        /\ \A i, j \in 1..Len(ps) : ps[i].package = ps[j].package => i = j
        /\ Sum([i \in 1..Len(ps) |-> Len(ps[i].via)]) <= nv}

LongAuditReport(n) ==
    IF n = 0 THEN <<>>
    ELSE << [package |-> "p",
             via |-> [i \in 1..n |->
                 [severity |-> "high", title |-> "t" \o ToString(i),
                  url |-> "No URL provided"]]] >>

NA_Inputs ==
    {[report |-> f] :
        f \in {Missing} \cup {OnDisk(r) : r \in AuditReports(MaxPkgs, MaxVia)}
              \cup {OnDisk(LongAuditReport(n)) : n \in LongLens}}

\* str.upper on the model's severity words
upper(word) ==
    CASE word = "high" -> "HIGH"
      [] word = "moderate" -> "MODERATE"
      [] word = "low" -> "LOW"
      [] word = "critical" -> "CRITICAL"
      [] word = "unknown" -> "UNKNOWN"
      [] OTHER -> word

\* categorized.setdefault(severity, []).append(issue) on the ordered
\* mapping severity -> issues, kept as a sequence in insertion order
NA_setdefault_append(cats, severity, issue) ==
    IF \E k \in 1..Len(cats) : cats[k].severity = severity
      THEN [k \in 1..Len(cats) |->
              IF cats[k].severity = severity
                THEN [cats[k] EXCEPT !.issues = Append(@, issue)]
                ELSE cats[k]]
      ELSE Append(cats, [severity |-> severity, issues |-> <<issue>>])

\* lines 22-29: the loops over the packages and their advisories
NA_categorize_package(acc, pkg) ==
    LET Step(a, i) ==
          [cats |-> NA_setdefault_append(a.cats, pkg.via[i].severity,
                        [package |-> pkg.package,
                         issue |-> pkg.via[i].title,
                         url |-> pkg.via[i].url])]
    IN FoldRange(Step, 1, Len(pkg.via), acc)

\* categorize_vulnerabilities: None for a missing file or an empty
\* "vulnerabilities" object, otherwise the mapping severity -> issues
categorize_vulnerabilities(file) ==
    IF ~file.exists THEN [is_none |-> TRUE, cats |-> <<>>]
    ELSE IF file.files = <<>> THEN [is_none |-> TRUE, cats |-> <<>>]
    ELSE LET Step(a, p) == NA_categorize_package(a, file.files[p])
         IN [is_none |-> FALSE,
             cats |-> FoldRange(Step, 1, Len(file.files), [cats |-> <<>>]).cats]

\* what categorize_vulnerabilities prints before it returns None
NA_categorize_message(file) ==
    IF ~file.exists THEN <<"Audit report file not found">>
    ELSE IF file.files = <<>> THEN <<"No vulnerabilities found.">>
    ELSE <<>>

\* "if vulnerabilities": neither None nor an empty mapping
NA_truthy(v) == ~v.is_none /\ v.cats # <<>>

\* lines 101-111: the annotations of one severity group
NA_annotations_of(cat) ==
    [i \in 1..Len(cat.issues) |->
        [external_id |-> cat.issues[i].package \o "_" \o cat.issues[i].issue,
         annotation_type |-> "VULNERABILITY",
         summary |-> "Vulnerability in " \o cat.issues[i].package \o ": "
                        \o cat.issues[i].issue,
         result |-> "FAILED",
         severity |-> upper(cat.severity),
         url |-> cat.issues[i].url]]

\* lines 99-111: all annotations, severity group by severity group
NA_build_annotations(v) ==
    Flatten([k \in 1..Len(v.cats) |-> NA_annotations_of(v.cats[k])])

\* line 70: the audit report is read; a missing file is reported and the
\* run goes on
NA_Load ==
    /\ script = "npm_audit" /\ pc = "load"
    /\ vulnerabilities' = categorize_vulnerabilities(input.report)
    /\ stdout' = stdout \o NA_categorize_message(input.report)
    /\ pc' = "put"
    /\ UNCHANGED <<returned, script, input, annotations, external_ids, uuids, testmode,
                   idx, requests, exit_code>>

\* line 71: len(vulnerabilities or {})
NA_num_of_vuln(v) == IF NA_truthy(v) THEN Len(v.cats) ELSE 0

\* lines 75-87: the "data" list of the summary report
NA_report_data(v) ==
    <<[type |-> "NUMBER", title |-> "Number of vulnerabilities",
       value |-> NA_num_of_vuln(v)]>>

\* lines 89-95: the summary PUT
NA_Put ==
    /\ script = "npm_audit" /\ pc = "put"
    /\ \E r \in HttpResults :
         /\ requests' = Append(requests,
                Request("PUT", 0, 0, NA_report_data(vulnerabilities), r))
         /\ IF r = "ok"
              THEN pc' = "build" /\ UNCHANGED exit_code
              ELSE pc' = "failed" /\ exit_code' = 1
    /\ UNCHANGED <<returned, script, input, vulnerabilities, annotations, external_ids,
                   uuids, testmode, idx, stdout>>

\* NA_Build leaving with status 1 when there is no vulnerability
NA_Build_exit_one ==
    /\ script = "npm_audit" /\ pc = "build"
    /\ IF NA_truthy(vulnerabilities)
         THEN /\ annotations' = NA_build_annotations(vulnerabilities)
              /\ pc' = "post"
              /\ UNCHANGED exit_code
         ELSE /\ pc' = "done"
              /\ exit_code' = 1
              /\ UNCHANGED annotations
    /\ idx' = 0
    /\ UNCHANGED <<returned, script, input, vulnerabilities, external_ids, uuids,
                   testmode, requests, stdout>>

\* lines 99-118: the annotations, or exit(0) when there is no vulnerability
NA_Build ==
    /\ script = "npm_audit" /\ pc = "build"
    /\ IF NA_truthy(vulnerabilities)
         THEN /\ annotations' = NA_build_annotations(vulnerabilities)
              /\ pc' = "post"
              /\ UNCHANGED exit_code
         ELSE /\ pc' = "done"
              /\ exit_code' = 0
              /\ UNCHANGED annotations
    /\ idx' = 0
    /\ UNCHANGED <<returned, script, input, vulnerabilities, external_ids, uuids,
                   testmode, requests, stdout>>

\* the exit status of the batch loop's exception handler, line 133
NA_batch_error_exit == 0

\* lines 121-133: one iteration of the batch loop
NA_Post ==
    /\ script = "npm_audit" /\ pc = "post"
    /\ LET batches == chunk_annotations(annotations_to_send(annotations), batch_size)
       IN /\ idx < Len(batches)
          /\ \E r \in HttpResults :
               /\ requests' = Append(requests,
                      Request("POST", 1, idx + 1, batches[idx + 1], r))
               /\ IF r = "ok"
                    THEN /\ idx' = idx + 1
                         /\ stdout' = Append(stdout, "Batch sent successfully")
                         /\ UNCHANGED <<pc, exit_code>>
                    ELSE /\ pc' = "failed"
                         /\ exit_code' = NA_batch_error_exit
                         /\ stdout' = Append(stdout, "Error with batch")
                         /\ UNCHANGED idx
    /\ UNCHANGED <<returned, script, input, vulnerabilities, annotations, external_ids,
                   uuids, testmode>>

\* the batch loop is exhausted and the script ends
NA_Finish ==
    /\ script = "npm_audit" /\ pc = "post"
    /\ idx = Len(chunk_annotations(annotations_to_send(annotations), batch_size))
    /\ pc' = "done"
    /\ exit_code' = 0
    /\ UNCHANGED <<returned, script, input, vulnerabilities, annotations, external_ids,
                   uuids, testmode, idx, requests, stdout>>

-----------------------------------------------------------------------------
(* create_bitbucket_test_report.py *)

\* line 99
mode == <<"PlayMode", "EditMode">>

\* one test-case element of a result file
TestCases ==
    {[methodname |-> "T1", result |-> "Failed"],
     [methodname |-> "T2", result |-> "Failed"],
     [methodname |-> "T1", result |-> "Passed"]}

LongTestResults(n) ==
    [i \in 1..n |-> [methodname |-> "T" \o ToString(i), result |-> "Failed"]]

TestResultFiles(n) ==
    {Missing} \cup {OnDisk(cs) : cs \in SeqsUpTo(TestCases, n)}

\* the pairs of lengths of the long PlayMode and EditMode lists: one of
\* them short, or both around the total limit
LongLenPairs ==
    {p \in LongLens \X LongLens :
        \/ p[1] <= MaxOver
        \/ p[2] <= MaxOver
        \/ p[1] >= max_annotations - MaxOver /\ p[2] >= max_annotations - MaxOver}

TR_Inputs ==
    {[coverage_exists |-> TRUE, PlayMode |-> p, EditMode |-> e] :
        p \in TestResultFiles(MaxCases), e \in TestResultFiles(MaxCases)}
    \cup {[coverage_exists |-> FALSE, PlayMode |-> OnDisk(<<>>),
           EditMode |-> OnDisk(<<>>)]}
    \cup {[coverage_exists |-> TRUE,
           PlayMode |-> OnDisk(LongTestResults(p[1])),
           EditMode |-> OnDisk(LongTestResults(p[2]))] : p \in LongLenPairs}

\* ET.parse raises when the file does not exist
TR_parse_raises(file) == ~file.exists

\* lines 110-122: the annotations of the failed test cases of one file
TR_build_annotations(cases) ==
    LET Step(acc, i) ==
          IF cases[i].result = "Failed"
            THEN [annotations |-> Append(acc.annotations,
                     [external_id |-> cases[i].methodname,
                      annotation_type |-> "VULNERABILITY",
                      summary |-> "The test method " \o cases[i].methodname
                                     \o " has failed.",
                      result |-> "FAILED",
                      severity |-> "HIGH"])]
            ELSE acc
    IN FoldRange(Step, 1, Len(cases), [annotations |-> <<>>]).annotations

\* lines 50-55: the coverage summary and both result files are parsed
TR_Load ==
    /\ script = "create_bitbucket_test_report" /\ pc = "load"
    /\ IF \/ ~input.coverage_exists
          \/ TR_parse_raises(input.EditMode)
          \/ TR_parse_raises(input.PlayMode)
         THEN /\ pc' = "failed"
              /\ exit_code' = 1
              /\ stdout' = Append(stdout, "FileNotFoundError")
         ELSE /\ pc' = "put"
              /\ UNCHANGED <<exit_code, stdout>>
    /\ UNCHANGED <<returned, script, input, vulnerabilities, annotations, external_ids,
                   uuids, testmode, idx, requests>>

\* the attributes of the root element of a result file: the counts NUnit
\* writes for the test cases the file holds, as text
TR_root_attrib(file) ==
    [total |-> ToString(Len(file.files)),
     failed |-> ToString(Cardinality({i \in 1..Len(file.files) :
                                         file.files[i].result = "Failed"}))]

\* lines 32-40
get_number_of_tests_failed(result_file) ==
    [total_tests |-> TR_root_attrib(result_file).total,
     total_failed |-> TR_root_attrib(result_file).failed]

\* int(text) for the decimal text of a count, text being read once
TR_int(text) ==
    CHOOSE n \in UNION {{m \in 0..(max_annotations + MaxOver + MaxCases) :
                            ToString(m) = t} : t \in {text}} : TRUE

\* TR_report with result FAILED only if both modes have failures
TR_report_failed_if_both(in) ==
    LET editmode_failed == get_number_of_tests_failed(in.EditMode)
        playmode_failed == get_number_of_tests_failed(in.PlayMode)
    IN [title |-> "Consolidated Test Report",
        details |-> "EditMode: " \o editmode_failed.total_failed \o "/"
                    \o editmode_failed.total_tests \o " failed, PlayMode: "
                    \o playmode_failed.total_failed \o "/"
                    \o playmode_failed.total_tests \o " failed",
        report_type |-> "TEST",
        reporter |-> "Jenkins",
        result |-> IF /\ TR_int(editmode_failed.total_failed) > 0
                      /\ TR_int(playmode_failed.total_failed) > 0
                   THEN "FAILED" ELSE "PASSED",
        data |-> <<[type |-> "BOOLEAN", title |-> "All EditMode tests passed?",
                    value |-> TR_int(editmode_failed.total_failed) = 0],
                   [type |-> "BOOLEAN", title |-> "All PlayMode tests passed?",
                    value |-> TR_int(playmode_failed.total_failed) = 0],
                   [type |-> "PERCENTAGE", title |-> "Line coverage"]>>]

\* lines 54-83: the summary report; the value of its third data entry is
\* the float of the coverage summary's Linecoverage text and is left out
TR_report(in) ==
    LET editmode_failed == get_number_of_tests_failed(in.EditMode)
        playmode_failed == get_number_of_tests_failed(in.PlayMode)
    IN [title |-> "Consolidated Test Report",
        details |-> "EditMode: " \o editmode_failed.total_failed \o "/"
                    \o editmode_failed.total_tests \o " failed, PlayMode: "
                    \o playmode_failed.total_failed \o "/"
                    \o playmode_failed.total_tests \o " failed",
        report_type |-> "TEST",
        reporter |-> "Jenkins",
        result |-> IF \/ TR_int(editmode_failed.total_failed) > 0
                      \/ TR_int(playmode_failed.total_failed) > 0
                   THEN "FAILED" ELSE "PASSED",
        data |-> <<[type |-> "BOOLEAN", title |-> "All EditMode tests passed?",
                    value |-> TR_int(editmode_failed.total_failed) = 0],
                   [type |-> "BOOLEAN", title |-> "All PlayMode tests passed?",
                    value |-> TR_int(playmode_failed.total_failed) = 0],
                   [type |-> "PERCENTAGE", title |-> "Line coverage"]>>]

\* lines 85-91: the summary PUT
TR_Put ==
    /\ script = "create_bitbucket_test_report" /\ pc = "put"
    /\ \E r \in HttpResults :
         /\ requests' = Append(requests, Request("PUT", 0, 0, TR_report(input), r))
         /\ IF r = "ok"
              THEN pc' = "build" /\ UNCHANGED exit_code
              ELSE pc' = "failed" /\ exit_code' = 1
    /\ UNCHANGED <<returned, script, input, vulnerabilities, annotations, external_ids,
                   uuids, testmode, idx, stdout>>

\* lines 101-132: the annotations of the current test mode
TR_Build ==
    /\ script = "create_bitbucket_test_report" /\ pc = "build"
    /\ annotations' = TR_build_annotations(input[mode[testmode]].files)
    /\ pc' = "post"
    /\ idx' = 0
    /\ UNCHANGED <<returned, script, input, vulnerabilities, external_ids, uuids,
                   testmode, requests, stdout, exit_code>>

\* the exit status of the batch loop's exception handler, line 151
TR_batch_error_exit == 0

\* lines 135-151: one iteration of the batch loop of the current mode
TR_Post ==
    /\ script = "create_bitbucket_test_report" /\ pc = "post"
    /\ LET batches == chunk_annotations(annotations_to_send(annotations), batch_size)
       IN /\ idx < Len(batches)
          /\ \E r \in HttpResults :
               /\ requests' = Append(requests,
                      Request("POST", testmode, idx + 1, batches[idx + 1], r))
               /\ IF r = "ok"
                    THEN /\ idx' = idx + 1
                         /\ stdout' = Append(stdout, "Batch sent successfully")
                         /\ UNCHANGED <<pc, exit_code>>
                    ELSE /\ pc' = "failed"
                         /\ exit_code' = TR_batch_error_exit
                         /\ stdout' = Append(stdout, "Error with batch")
                         /\ UNCHANGED idx
    /\ UNCHANGED <<returned, script, input, vulnerabilities, annotations, external_ids,
                   uuids, testmode>>

\* line 101: the batch loop of a mode is exhausted, the next mode starts
TR_NextMode ==
    /\ script = "create_bitbucket_test_report" /\ pc = "post"
    /\ idx = Len(chunk_annotations(annotations_to_send(annotations), batch_size))
    /\ testmode < Len(mode)
    /\ testmode' = testmode + 1
    /\ pc' = "build"
    /\ UNCHANGED <<returned, script, input, vulnerabilities, annotations, external_ids,
                   uuids, idx, requests, stdout, exit_code>>

\* the batch loop of the last mode is exhausted and the script ends
TR_Finish ==
    /\ script = "create_bitbucket_test_report" /\ pc = "post"
    /\ idx = Len(chunk_annotations(annotations_to_send(annotations), batch_size))
    /\ testmode = Len(mode)
    /\ pc' = "done"
    /\ exit_code' = 0
    /\ UNCHANGED <<returned, script, input, vulnerabilities, annotations, external_ids,
                   uuids, testmode, idx, requests, stdout>>

-----------------------------------------------------------------------------
(* The runs *)

NoVulnerabilities == [is_none |-> TRUE, cats |-> <<>>]

InitRun(s, in) ==
    /\ script = s
    /\ input = in
    /\ pc = "load"
    /\ vulnerabilities = NoVulnerabilities
    /\ annotations = <<>>
    /\ external_ids = {}
    /\ uuids = 0
    /\ testmode = 1
    /\ idx = 0
    /\ requests = <<>>
    /\ stdout = <<>>
    /\ exit_code = NotExited
    /\ returned = None

Init ==
    \/ \E in \in LG_Inputs : InitRun("Lint_groovy_report", in)
    \/ \E in \in LE_Inputs : InitRun("linting_error_report", in)
    \/ \E in \in NA_Inputs : InitRun("npm_audit", in)
    \/ \E in \in TR_Inputs : InitRun("create_bitbucket_test_report", in)

Next ==
    \/ LG_Load
    \/ LG_Put
    \/ LG_Build
    \/ LG_Post
    \/ LG_Finish
    \/ LE_Load
    \/ LE_Put
    \/ LE_Build
    \/ LE_Post
    \/ LE_Finish
    \/ NA_Load
    \/ NA_Put
    \/ NA_Build
    \/ NA_Post
    \/ NA_Finish
    \/ TR_Load
    \/ TR_Put
    \/ TR_Build
    \/ TR_Post
    \/ TR_NextMode
    \/ TR_Finish

Spec == Init /\ [][Next]_vars

-----------------------------------------------------------------------------
(* Vocabulary of the properties *)

Submitters ==
    {"Lint_groovy_report", "linting_error_report", "npm_audit",
     "create_bitbucket_test_report"}

Exited == exit_code # NotExited

SomeRequestFailed == \E i \in 1..Len(requests) : requests[i].result # "ok"

\* the POST requests issued so far for annotation list l
PostsOf(l) ==
    {i \in 1..Len(requests) :
        requests[i].method = "POST" /\ requests[i].list = l}

\* the number of annotations contained in all requests issued so far
TotalPosted ==
    LET Step(acc, i) == [n |-> acc.n + IF requests[i].method = "POST"
                                       THEN Len(requests[i].payload) ELSE 0]
    IN FoldRange(Step, 1, Len(requests), [n |-> 0]).n

\* the least k with k * d >= m
CeilDiv(m, d) == CHOOSE k \in 0..m : k * d >= m /\ (k = 0 \/ (k - 1) * d < m)

\* the annotation list the current batch loop of the run works on
ListNo == IF script = "create_bitbucket_test_report" THEN testmode ELSE 1

-----------------------------------------------------------------------------
(* C1: in every submitting script a failed HTTP request (the summary PUT   *)
(* or an annotation batch POST) ends the process with a non-zero exit      *)
(* status; status 0 is returned only if every request issued succeeded.    *)
C1_FailedRequestExitsNonZero ==
    (script \in Submitters /\ Exited /\ SomeRequestFailed) => exit_code # 0

(* C2: truncating a list of N annotations to 1000 and chunking it by 100   *)
(* gives ceil(min(N,1000)/100) batches, each with 1..100 entries, whose    *)
(* concatenation is the first min(N,1000) annotations in order; these are  *)
(* the payloads the batch loop POSTs.                                      *)
C2_ChunksPartitionTruncatedList ==
    pc \in {"post", "done", "failed"} =>
        LET N == Len(annotations)
            M == Min(N, 1000)
            batches == chunk_annotations(annotations_to_send(annotations), batch_size)
        IN /\ Len(batches) = CeilDiv(M, 100)
           /\ \A k \in 1..Len(batches) :
                 Len(batches[k]) >= 1 /\ Len(batches[k]) <= 100
           /\ Flatten(batches) = SubSeq(annotations, 1, M)
           /\ \A i \in PostsOf(ListNo) :
                 requests[i].payload = batches[requests[i].batch]
           /\ (pc = "done" /\ ~SomeRequestFailed) =>
                 Cardinality(PostsOf(ListNo)) = Len(batches)

C2_Witness ==
    /\ pc = "done"
    /\ Len(annotations) > max_annotations
    /\ Cardinality(PostsOf(ListNo)) = 10
    /\ ~SomeRequestFailed

(* C3: in one run the annotations contained in all batches POSTed to the   *)
(* report's annotations endpoint number at most 1000, also in              *)
(* create_bitbucket_test_report, which submits two lists to one report.    *)
C3_AtMost1000AnnotationsPerRun ==
    script \in Submitters => TotalPosted <= 1000

(* C4: a run sends the summary PUT exactly once and before any annotation  *)
(* POST, sends no POST unless the PUT succeeded, POSTs the batches one at  *)
(* a time in increasing batch index, each only after the one before it     *)
(* succeeded, and reaches DONE only after every batch succeeded.           *)
C4_RunFollowsStateMachine ==
    /\ \A i \in 1..Len(requests) : (requests[i].method = "PUT") <=> (i = 1)
    /\ \A i \in 2..Len(requests) :
          /\ requests[i - 1].result = "ok"
          /\ requests[i].method = "POST"
          /\ IF requests[i - 1].method = "POST"
                /\ requests[i - 1].list = requests[i].list
               THEN requests[i].batch = requests[i - 1].batch + 1
               ELSE /\ requests[i].batch = 1
                    /\ requests[i - 1].list < requests[i].list
    /\ pc \in {"build", "post", "done"} =>
          /\ Len(requests) >= 1
          /\ requests[1].result = "ok"
    /\ pc = "done" =>
          /\ ~SomeRequestFailed
          /\ Cardinality(PostsOf(ListNo)) =
                Len(chunk_annotations(annotations_to_send(annotations), batch_size))

C4_Witness ==
    /\ pc = "done"
    /\ script = "create_bitbucket_test_report"
    /\ \E i \in 1..Len(requests) : requests[i].list = 1 /\ requests[i].batch = 2
    /\ \E i \in 1..Len(requests) : requests[i].list = 2 /\ requests[i].batch = 2

(* C5: once a request of a run has failed no further HTTP request is       *)
(* issued: later batches are not attempted, nothing is retried, and the    *)
(* requests already sent stay as they are.                                 *)
C5_NoRequestAfterFailure ==
    [][/\ SomeRequestFailed => requests' = requests
       /\ Len(requests') >= Len(requests)
       /\ SubSeq(requests', 1, Len(requests)) = requests]_vars

C5_Witness ==
    /\ pc = "failed"
    /\ Len(requests) >= 3
    /\ requests[Len(requests)].result # "ok"
    /\ requests[Len(requests) - 1].result = "ok"

-----------------------------------------------------------------------------
(* Vocabulary of the properties on the annotation builders *)

LintScripts == {"Lint_groovy_report", "linting_error_report"}

\* the annotation build step of the run has been executed
Built ==
    \/ pc = "post"
    \/ /\ pc \in {"done", "failed"}
       /\ requests # <<>>
       /\ requests[1].result = "ok"
       /\ ~(script = "linting_error_report" /\ input.Result = "Pass")

\* the annotation build step is the last step the run has executed
JustBuilt ==
    /\ Built
    /\ requests[Len(requests)].method = "PUT"
    /\ pc \in {"post", "failed"}

ExternalIds == {annotations[i].external_id : i \in 1..Len(annotations)}

\* the findings of the files of a Groovy/Jenkins report that are found in
\* the tree, in report order, each with its path, line and candidate id
LG_findings(report) ==
    Flatten([f \in 1..Len(report) |->
        LET rel == LG_find_file_path(report[f].name)
        IN IF rel = None THEN <<>>
           ELSE [e \in 1..Len(report[f].errors) |->
                    [path |-> rel, line |-> report[f].errors[e].line,
                     cand |-> LG_ext_id(rel, report[f].errors[e])]]])

\* the same for the first n documents of a dotnet-format report
LE_findings(report, n) ==
    Flatten([d \in 1..n |->
        LET rel == LE_find_file_path(report[d].FileName)
        IN IF rel = None THEN <<>>
           ELSE [c \in 1..Len(report[d].FileChanges) |->
                    [path |-> rel, line |-> report[d].FileChanges[c].LineNumber,
                     cand |-> LE_id(rel, report[d].FileChanges[c])]]])

\* the documents of a dotnet-format report whose file is not in the tree
LE_not_found(report) ==
    {d \in 1..Len(report) : LE_find_file_path(report[d].FileName) = None}

\* the number of documents the build loop of linting_error_report went
\* through: all of them, or those before the one it stopped at
LE_processed(report) ==
    IF LE_not_found(report) = {} THEN Len(report)
    ELSE (CHOOSE d \in LE_not_found(report) :
             \A o \in LE_not_found(report) : d <= o) - 1

\* the findings the lint run has processed, in processing order
ProcessedFindings ==
    IF script = "Lint_groovy_report"
      THEN LG_findings(input.groovy.files) \o LG_findings(input.jenkins.files)
      ELSE LE_findings(input.report.files, LE_processed(input.report.files))

\* id is cand followed by a non-empty suffix introduced by "-"
IsSuffixed(id, cand) ==
    /\ Len(id) > Len(cand) + 1
    /\ SubSeq(id, 1, Len(cand) + 1) = cand \o "-"

\* the file names of the lint run's reports that are not found in the tree
NotFoundNames ==
    IF script = "Lint_groovy_report"
      THEN {input.groovy.files[f].name : f \in
                {g \in 1..Len(input.groovy.files) :
                    LG_find_file_path(input.groovy.files[g].name) = None}}
           \cup {input.jenkins.files[f].name : f \in
                {g \in 1..Len(input.jenkins.files) :
                    LG_find_file_path(input.jenkins.files[g].name) = None}}
      ELSE {input.report.files[d].FileName : d \in LE_not_found(input.report.files)}

\* the diagnostic the script prints for a file that is not found
NotFoundDiagnostic(name) ==
    IF script = "Lint_groovy_report"
      THEN "File not found in project: " \o name
      ELSE "File Not Found"

\* the input file (one of the input files) of the run does not exist
InputMissing ==
    CASE script = "Lint_groovy_report" ->
            ~input.groovy.exists \/ ~input.jenkins.exists
      [] script = "linting_error_report" ->
            input.Result = "Fail" /\ ~input.report.exists
      [] script = "npm_audit" -> ~input.report.exists
      [] script = "create_bitbucket_test_report" ->
            \/ ~input.coverage_exists
            \/ ~input.PlayMode.exists
            \/ ~input.EditMode.exists

-----------------------------------------------------------------------------
(* C6: in the lint scripts, which keep a registry of external ids, no two  *)
(* annotations built in one run have the same external_id, however many    *)
(* findings compute the same candidate id (every uuid drawn being fresh).  *)
C6_LintExternalIdsUnique ==
    script \in LintScripts => Cardinality(ExternalIds) = Len(annotations)

C6_Witness ==
    /\ script = "Lint_groovy_report"
    /\ pc = "post"
    /\ Len(input.groovy.files) = 1
    /\ Len(annotations) = 3
    /\ Cardinality(external_ids) = 1
    /\ uuids = 2
    /\ annotations[3].external_id # annotations[2].external_id

(* C7: in npm_audit and create_bitbucket_test_report no two annotations    *)
(* of one submission have the same external_id, also for two advisories    *)
(* with the same package and title or two failed tests with the same       *)
(* methodname.                                                             *)
C7_AuditAndTestIdsUnique ==
    script \in {"npm_audit", "create_bitbucket_test_report"} =>
        Cardinality(ExternalIds) = Len(annotations)

(* C8: of several findings with the same candidate id, the first in        *)
(* processing order gets the candidate id itself and every later one the   *)
(* candidate id followed by a suffix; the annotations are in the           *)
(* processing order of the findings (file order, then error order).        *)
(* Stated of the list as the annotation builder leaves it.                 *)
C8_FirstOccurrenceKeepsId ==
    (script \in LintScripts /\ JustBuilt) =>
        LET F == ProcessedFindings
        IN /\ Len(annotations) = Len(F)
           /\ \A i \in 1..Len(F) :
                 /\ annotations[i].path = F[i].path
                 /\ annotations[i].line = F[i].line
                 /\ IF \E j \in 1..(i - 1) : F[j].cand = F[i].cand
                      THEN IsSuffixed(annotations[i].external_id, F[i].cand)
                      ELSE annotations[i].external_id = F[i].cand

C8_Witness ==
    /\ script = "linting_error_report"
    /\ JustBuilt
    /\ pc = "post"
    /\ Len(input.report.files) = 2
    /\ Len(annotations) = 2
    /\ uuids = 1
    /\ annotations[1].external_id \in external_ids
    /\ IsSuffixed(annotations[2].external_id, annotations[1].external_id)

(* C9: when a file named in a lint report matches no file under the        *)
(* search root, the annotation builder drops that file's findings, prints  *)
(* a diagnostic and goes on with the remaining files; the run is not       *)
(* aborted.  Both for Lint_groovy_report and linting_error_report.         *)
C9_UnmatchedFileIsSkipped ==
    (script \in LintScripts /\ Built) =>
        /\ pc = "failed" => SomeRequestFailed
        /\ Len(annotations) =
              IF script = "Lint_groovy_report"
                THEN Len(ProcessedFindings)
                ELSE Len(LE_findings(input.report.files, Len(input.report.files)))
        /\ \A name \in NotFoundNames :
              \E k \in 1..Len(stdout) : stdout[k] = NotFoundDiagnostic(name)

(* C10: when the input report file of a submitting script does not exist,  *)
(* the process exits at once with a printed message and issues no HTTP     *)
(* request; in particular npm_audit sends nothing for a missing report.    *)
C10_MissingInputSendsNothing ==
    (script \in Submitters /\ InputMissing) =>
        /\ requests = <<>>
        /\ Exited => stdout # <<>>

-----------------------------------------------------------------------------
(* Texts.  A text is a sequence of characters; a character is a string of  *)
(* length one, except ESC, which stands for the byte \x1b.                  *)

\* longest text given to the text functions on their own
MaxText == 4

ESC == "ESC"
Digits == {"0", "1", "2", "3", "4", "5", "6", "7", "8", "9"}

\* the characters of a string literal
Chars(s) == [i \in 1..Len(s) |-> SubSeq(s, i, i)]

\* text[i:] and text[:n] of Python
From(text, i) == SubSeq(text, i, Len(text))
Prefix(text, n) == SubSeq(text, 1, Min(n, Len(text)))

\* str.replace(old, new) for a single character old
replace(text, old, new) ==
    Flatten([i \in 1..Len(text) |-> IF text[i] = old THEN new ELSE <<text[i]>>])

-----------------------------------------------------------------------------
(* python/JsReporting/extract_test_result.py: the cleaning helpers *)

\* end of the match of \x1b\[[0-9;]*m starting at i, 0 when there is none
ansi_escape_end(text, i) ==
    IF i + 1 <= Len(text) /\ text[i] = ESC /\ text[i + 1] = "["
    THEN LET stops == {j \in (i + 2)..Len(text) : text[j] \notin Digits \cup {";"}}
         IN IF stops = {} THEN 0
            ELSE LET j == CHOOSE k \in stops : \A l \in stops : k <= l
                 IN IF text[j] = "m" THEN j ELSE 0
    ELSE 0

RECURSIVE remove_ansi_codes(_)
remove_ansi_codes(text) ==
    IF text = <<>> THEN <<>>
    ELSE LET e == ansi_escape_end(text, 1)
         IN IF e > 0 THEN remove_ansi_codes(From(text, e + 1))
            ELSE <<text[1]>> \o remove_ansi_codes(From(text, 2))

\* end of the match of <.*?> starting at i, 0 when there is none; the dot
\* does not match a newline
clean_regex_end(text, i) ==
    IF i <= Len(text) /\ text[i] = "<"
    THEN LET ends == {j \in (i + 1)..Len(text) :
                         /\ text[j] = ">"
                         /\ \A k \in (i + 1)..(j - 1) : text[k] # "\n"}
         IN IF ends = {} THEN 0 ELSE CHOOSE k \in ends : \A l \in ends : k <= l
    ELSE 0

RECURSIVE clean_html(_)
clean_html(raw_text) ==
    IF raw_text = <<>> THEN <<>>
    ELSE LET e == clean_regex_end(raw_text, 1)
         IN IF e > 0 THEN clean_html(From(raw_text, e + 1))
            ELSE <<raw_text[1]>> \o clean_html(From(raw_text, 2))

clean_escape_characters(text) ==
    replace(replace(text, "\\", <<"/">>), "\"", <<"\"">>)

max_length == 2000

sanitize_description(description, max) ==
    LET cleaned == clean_escape_characters(clean_html(remove_ansi_codes(description)))
        joined == replace(replace(cleaned, "\n", <<>>), "\\", <<"/">>)
    IN Prefix(joined, max)

\* the characters the cleaning helpers tell apart, and a plain one
TextChars == {ESC, "[", "1", ";", "m", "<", ">", "\n", "\\", "a"}

SD_Inputs == SeqsUpTo(TextChars, MaxText)

\* a call of a function on its own: the function and its arguments
InitCall(f, in) ==
    /\ script = f
    /\ input = in
    /\ pc = "call"
    /\ vulnerabilities = NoVulnerabilities
    /\ annotations = <<>>
    /\ external_ids = {}
    /\ uuids = 0
    /\ testmode = 1
    /\ idx = 0
    /\ requests = <<>>
    /\ stdout = <<>>
    /\ exit_code = NotExited
    /\ returned = None

SD_Init == \E in \in SD_Inputs : InitCall("sanitize_description", in)

SD_Call ==
    /\ script = "sanitize_description"
    /\ pc = "call"
    /\ returned' = sanitize_description(input, max_length)
    /\ pc' = "done"
    /\ UNCHANGED <<script, input, vulnerabilities, annotations, external_ids,
                   uuids, testmode, idx, requests, stdout, exit_code>>

SD_Spec == SD_Init /\ [][SD_Call]_vars

HasAnsiEscape(text) == \E i \in 1..Len(text) : ansi_escape_end(text, i) > 0

HasHtmlTag(text) ==
    \E i, j \in 1..Len(text) : i < j /\ text[i] = "<" /\ text[j] = ">"

HasChar(text, c) == \E i \in 1..Len(text) : text[i] = c

\* C11: whatever the input, the text returned by sanitize_description holds
\* no ANSI colour escape sequence, no HTML tag, no newline and no
\* backslash, and is at most 2000 characters long.
C11_SanitizedTextIsClean ==
    (script = "sanitize_description" /\ pc = "done") =>
        /\ ~HasAnsiEscape(returned)
        /\ ~HasHtmlTag(returned)
        /\ ~HasChar(returned, "\n")
        /\ ~HasChar(returned, "\\")
        /\ Len(returned) <= max_length

-----------------------------------------------------------------------------
(* python/JsReporting/extract_test_result.py: the test summary.  A JSON    *)
(* object is a function on the keys it has; an absent key is absent from   *)
(* the domain.                                                             *)

\* test cases per document, over all its entries
MaxAsserts == 2

\* test_cases_of reading "assertionResults" only
test_cases_of_assertions_only(test_result) ==
    get(test_result, "assertionResults", <<>>)

\* test_result.get("assertionResults") or test_result.get("testResults") or []
test_cases_of(test_result) ==
    LET assertionResults == get(test_result, "assertionResults", <<>>)
        testResults == get(test_result, "testResults", <<>>)
    IN IF assertionResults # <<>> THEN assertionResults
       ELSE IF testResults # <<>> THEN testResults
       ELSE <<>>

ETS_record(assertion) ==
    [test_name |-> get(assertion, "title", "Unknown Test"),
     status |-> get(assertion, "status", "unknown")]

\* summary["tests"] after the loop over data.get("testResults", [])
ETS_tests(data) ==
    LET entries == get(data, "testResults", <<>>)
    IN Flatten([i \in 1..Len(entries) |->
           LET test_cases == test_cases_of(entries[i])
           IN [j \in 1..Len(test_cases) |-> ETS_record(test_cases[j])]])

\* pd.DataFrame(records): a frame built from no record has no column
DataFrame(records) ==
    [columns |-> IF records = <<>> THEN {} ELSE {"test_name", "status"},
     rows |-> records]

ETS_filters == {"passed", "failed", "todo"}

ETS_debug_lines(res) ==
    <<<<"Test debug Info:">>,
      <<"Total Tests : ", res.summary.total_tests>>,
      <<"Passed Tests: ", res.summary.passed_tests>>,
      <<"Failed Tests: ", res.summary.failed_tests>>,
      <<"Todo Tests  : ", res.summary.todo_tests>>>>
    \o [i \in 1..Len(res.details) |->
           <<" - Test Name: ", res.details[i].test_name,
             ", Status: ", res.details[i].status>>]

\* the call's outcome ("returned", "raised" or "exit"), the value returned
\* and the lines printed
extract_test_summary(file, debug, filter_status) ==
    IF ~file.exists
    THEN [outcome |-> "exit", value |-> <<>>,
          out |-> <<<<"Error: The file does not exist.">>>>]
    ELSE LET data == file.data
             df == DataFrame(ETS_tests(data))
             status_eq(r) == r.status = filter_status
             res == [summary |-> [total_tests |-> get(data, "numTotalTests", 0),
                                  passed_tests |-> get(data, "numPassedTests", 0),
                                  failed_tests |-> get(data, "numFailedTests", 0),
                                  todo_tests |-> get(data, "numTodoTests", 0)],
                     details |-> IF filter_status \in ETS_filters
                                 THEN SelectSeq(df.rows, status_eq)
                                 ELSE df.rows]
         IN IF filter_status \in ETS_filters /\ "status" \notin df.columns
            THEN [outcome |-> "raised", value |-> <<>>, out |-> <<>>]
            ELSE [outcome |-> "returned", value |-> res,
                  out |-> IF debug THEN ETS_debug_lines(res) ELSE <<>>]

-----------------------------------------------------------------------------
(* python/JsReporting/extract_test_result.py: the failure details *)

\* sub in text
contains(text, sub) ==
    \E i \in 1..(Len(text) - Len(sub) + 1) :
        \A k \in 1..Len(sub) : text[i + k - 1] = sub[k]

\* text.split(sep) for a single character sep
RECURSIVE split(_, _)
split(text, sep) ==
    LET hits == {i \in 1..Len(text) : text[i] = sep}
    IN IF hits = {} THEN <<text>>
       ELSE LET i == CHOOSE k \in hits : \A l \in hits : k <= l
            IN <<SubSeq(text, 1, i - 1)>> \o split(From(text, i + 1), sep)

\* sep.join(lines)
RECURSIVE join(_, _)
join(lines, sep) ==
    IF lines = <<>> THEN <<>>
    ELSE IF Len(lines) = 1 THEN lines[1]
    ELSE lines[1] \o sep \o join(Tail(lines), sep)

\* remove_node_module_lines looking for 'node_modules' only
remove_node_modules_lines_only(message) ==
    LET keep(line) == ~contains(line, Chars("node_modules"))
    IN join(SelectSeq(split(message, "\n"), keep), <<"\n">>)

remove_node_module_lines(message) ==
    LET keep(line) == /\ ~contains(line, Chars("node_module"))
                      /\ ~contains(line, Chars("node_modules"))
    IN join(SelectSeq(split(message, "\n"), keep), <<"\n">>)

\* int(digits)
DigitValue(c) == CHOOSE n \in 0..9 : ToString(n) = c
RECURSIVE int(_)
int(digits) ==
    IF digits = <<>> THEN 0
    ELSE 10 * int(SubSeq(digits, 1, Len(digits) - 1)) + DigitValue(digits[Len(digits)])

\* length of the run of digits of text that starts at i
DigitRun(text, i) ==
    LET stops == {j \in i..(Len(text) + 1) : j > Len(text) \/ text[j] \notin Digits}
    IN (CHOOSE j \in stops : \A l \in stops : j <= l) - i

\* re.search(r'at (.+):(\d+):(\d+)', message): the leftmost 'at ', the
\* longest group 1 on its line that is followed by :digits:digit
location_search(message) ==
    LET n == Len(message)
        ends(s) == {e \in (s + 3)..n :
                        /\ \A k \in (s + 3)..e : message[k] # "\n"
                        /\ e + 1 <= n /\ message[e + 1] = ":"
                        /\ LET d == DigitRun(message, e + 2)
                           IN /\ d >= 1
                              /\ e + 3 + d <= n
                              /\ message[e + 2 + d] = ":"
                              /\ message[e + 3 + d] \in Digits}
        starts == {st \in 1..n : /\ st + 2 <= n
                                 /\ SubSeq(message, st, st + 2) = Chars("at ")
                                 /\ ends(st) # {}}
    IN IF starts = {} THEN [found |-> FALSE, file |-> <<>>, line |-> <<>>]
       ELSE LET st == CHOOSE k \in starts : \A l \in starts : k <= l
                e == CHOOSE k \in ends(st) : \A l \in ends(st) : k >= l
            IN [found |-> TRUE,
                file |-> SubSeq(message, st + 3, e),
                line |-> SubSeq(message, e + 2, e + 1 + DigitRun(message, e + 2))]

\* text.lstrip('\\/')
RECURSIVE lstrip_slashes(_)
lstrip_slashes(text) ==
    IF text # <<>> /\ text[1] \in {"\\", "/"} THEN lstrip_slashes(Tail(text)) ELSE text

\* source_file.split(project_type, 1)[-1]
after_first(text, sub) ==
    LET hits == {i \in 1..(Len(text) - Len(sub) + 1) :
                     SubSeq(text, i, i + Len(sub) - 1) = sub}
    IN IF hits = {} THEN text
       ELSE From(text, (CHOOSE k \in hits : \A l \in hits : k <= l) + Len(sub))

\* os.path.join(a, b) on Linux, b not absolute
path_join(a, b) ==
    IF a = <<>> \/ a[Len(a)] = "/" THEN a \o b ELSE a \o <<"/">> \o b

FD_relative(source_file, project_type) ==
    IF contains(source_file, project_type)
    THEN replace(path_join(project_type,
                           lstrip_slashes(after_first(source_file, project_type))),
                 "\\", <<"/">>)
    ELSE source_file

\* assertion.get("failureMessages", []) or assertion.get("failureDetails", [])
FD_failure_messages(assertion) ==
    LET failureMessages == get(assertion, "failureMessages", <<>>)
    IN IF failureMessages # <<>> THEN failureMessages
       ELSE get(assertion, "failureDetails", <<>>)

\* the loop over the failure messages of the matching cases of one entry;
\* source_file is the loop's variable of that name.  line_number is an int
\* or a str in Python: [int |-> n] or [str |-> "N/A"] here
RECURSIVE FD_records(_, _, _, _)
FD_records(messages, source_file, test_name, project_type) ==
    IF messages = <<>> THEN <<>>
    ELSE LET message == remove_node_module_lines(Head(messages))
             formatted_message == sanitize_description(message, max_length)
             match == location_search(message)
             found_file == IF match.found THEN match.file ELSE source_file
             relative == FD_relative(found_file, project_type)
         IN <<[test_name |-> test_name,
               source_file |-> relative,
               line_number |-> IF match.found THEN [int |-> int(match.line)]
                               ELSE [str |-> "N/A"],
               description |-> formatted_message]>>
            \o FD_records(Tail(messages), relative, test_name, project_type)

FD_entry(test_result, test_name, project_type) ==
    LET test_cases == test_cases_of(test_result)
        messages == Flatten([j \in 1..Len(test_cases) |->
                        IF /\ "title" \in DOMAIN test_cases[j]
                           /\ test_cases[j].title = test_name
                        THEN FD_failure_messages(test_cases[j])
                        ELSE <<>>])
    IN FD_records(messages, get(test_result, "name", Chars("Unknown File")),
                  test_name, project_type)

FD_debug_lines(failed_tests_info) ==
    <<<<"Processed Failed Test Details:">>>>
    \o [i \in 1..Len(failed_tests_info) |-> <<failed_tests_info[i]>>]

extract_failure_details(file, project_type, debug) ==
    LET test_summary == extract_test_summary(file, debug, "failed")
    IN IF test_summary.outcome # "returned" THEN test_summary
       ELSE LET details == test_summary.value.details
                entries == get(file.data, "testResults", <<>>)
                failed_tests_info ==
                    Flatten([i \in 1..Len(details) |->
                        Flatten([k \in 1..Len(entries) |->
                            FD_entry(entries[k], details[i].test_name,
                                     project_type)])])
            IN [outcome |-> "returned", value |-> failed_tests_info,
                out |-> test_summary.out
                        \o IF debug THEN FD_debug_lines(failed_tests_info)
                           ELSE <<>>]

-----------------------------------------------------------------------------
(* python/JsReporting/extract_test_result.py: the documents and the run *)

\* the four counters, each present or absent
ETR_counts ==
    [numTotalTests |-> 6, numPassedTests |-> 3, numFailedTests |-> 2,
     numTodoTests |-> 1]

CountDocs == {[k \in K |-> ETR_counts[k]] : K \in SUBSET DOMAIN ETR_counts}

\* test cases with and without a title and a status
ShapeAsserts ==
    {[title |-> "t1", status |-> "failed"], [title |-> "t2", status |-> "passed"],
     [title |-> "t1"], [status |-> "todo"]}

\* a key that is absent, or bound to one of the values
Optional(key, values) == {<<>>} \cup {[k \in {key} |-> v] : v \in values}

\* the entries holding c test cases: each of the two lists absent, empty or not
EntriesWith(Asserts, c) ==
    UNION {{a @@ t : a \in IF n = 0 THEN Optional("assertionResults", {<<>>})
                            ELSE {[assertionResults |-> l] : l \in [1..n -> Asserts]},
                     t \in IF c = n THEN Optional("testResults", {<<>>})
                            ELSE {[testResults |-> l] : l \in [1..(c - n) -> Asserts]}}
           : n \in 0..c}

\* the lists of exactly n entries holding at most budget test cases
\* together, each entry holding at least least of them
RECURSIVE EntryLists(_, _, _, _)
EntryLists(Asserts, n, least, budget) ==
    IF n = 0 THEN {<<>>}
    ELSE UNION {{<<e>> \o rest : e \in EntriesWith(Asserts, c),
                                 rest \in EntryLists(Asserts, n - 1, least, budget - c)}
                : c \in least..budget}

\* the documents with one entry, of any shape, and those with several
\* entries that hold a test case each
ShapeDocs ==
    {ETR_counts, ETR_counts @@ [testResults |-> <<>>]}
    \cup {ETR_counts @@ [testResults |-> l] :
             l \in EntryLists(ShapeAsserts, 1, 0, MaxAsserts)}
    \cup UNION {{ETR_counts @@ [testResults |-> l] :
                    l \in EntryLists(ShapeAsserts, n, 1, MaxAsserts)}
                : n \in 2..MaxAsserts}

OneFailure == [testResults |-> <<[assertionResults |->
                                     <<[title |-> "t1", status |-> "failed"]>>]>>]

\* lines of the failure messages of a document, over all its messages
MaxMsgLines == 2

\* the lines of a failure message: plain text, a location in the project,
\* and locations in a dependency
MessageLines ==
    {Chars("Error: x"), Chars("at /w/client/a.js:1:2"),
     Chars("at /w/node_modules/j.js:9:9"), Chars("at node_module/k.js:8:8")}

\* the messages of exactly n lines
MessagesOf(n) == {join(ls, <<"\n">>) : ls \in [1..n -> MessageLines]}

\* the lists of messages of at least one line each, budget lines in all
RECURSIVE MessageLists(_)
MessageLists(budget) ==
    {<<>>} \cup UNION {{<<m>> \o rest : m \in MessagesOf(n),
                                        rest \in MessageLists(budget - n)}
                       : n \in 1..budget}

TotalLines(messages) ==
    Sum([i \in 1..Len(messages) |-> Len(split(messages[i], "\n"))])

\* one or two failed test cases with their failure messages
FailedCases ==
    {<<[title |-> "t1", status |-> "failed", failureMessages |-> ms]>> :
        ms \in MessageLists(MaxMsgLines)}
    \cup UNION {{<<[title |-> "t1", status |-> "failed", failureMessages |-> ms1],
                    [title |-> t, status |-> "failed", failureMessages |-> ms2]>> :
                     t \in {"t1", "t2"},
                     ms2 \in MessageLists(MaxMsgLines - TotalLines(ms1))}
                : ms1 \in MessageLists(MaxMsgLines)}

\* documents of one entry, with or without a name
MessageDocs ==
    {ETR_counts @@ [testResults |-> <<name @@ [assertionResults |-> cases]>>] :
        name \in Optional("name", {Chars("/w/client/t.js")}),
        cases \in FailedCases}

ETR_file(data) == [exists |-> TRUE, data |-> data]
ETR_missing == [exists |-> FALSE, data |-> <<>>]

ETR_statuses == {None, "passed", "failed", "todo"}

ETR_args(files, debugs, statuses) ==
    [file : files, project_folder_name : {Chars("client")}, debug : debugs,
     filter_status : statuses]

ETR_Inputs ==
    \* every combination of the counters
    ETR_args({ETR_file(c @@ t) : c \in CountDocs, t \in {<<>>, OneFailure}},
             {FALSE}, ETR_statuses)
    \* every shape of the entries
    \cup ETR_args({ETR_file(d) : d \in ShapeDocs}, {FALSE}, ETR_statuses)
    \* the failure messages
    \cup ETR_args({ETR_file(d) : d \in MessageDocs}, {FALSE}, {None})
    \* the debug output, and the file that does not exist
    \cup ETR_args({ETR_file(ETR_counts @@ OneFailure), ETR_file(<<>>), ETR_missing},
                  BOOLEAN, ETR_statuses)

ETR_Init == \E in \in ETR_Inputs : InitCall("extract_test_result", in)

\* the end of a call: it returned, raised, or left through sys.exit(1)
ETR_after(call, next) ==
    /\ stdout' = stdout \o call.out
    /\ returned' = call.value
    /\ pc' = CASE call.outcome = "returned" -> next
               [] call.outcome = "raised" -> "raised"
               [] call.outcome = "exit" -> "exited"
    /\ exit_code' = IF call.outcome = "returned"
                    THEN (IF next = "done" THEN 0 ELSE exit_code)
                    ELSE 1

\* main: extract_test_summary(file_path, debug, filter_status)
ETR_Summary ==
    /\ script = "extract_test_result"
    /\ pc = "call"
    /\ ETR_after(extract_test_summary(input.file, input.debug, input.filter_status),
                 "details")
    /\ UNCHANGED <<script, input, vulnerabilities, annotations, external_ids,
                   uuids, testmode, idx, requests>>

\* main: extract_failure_details(file_path, project_folder_name, debug)
ETR_Details ==
    /\ script = "extract_test_result"
    /\ pc = "details"
    /\ ETR_after(extract_failure_details(input.file, input.project_folder_name,
                                         input.debug),
                 "done")
    /\ UNCHANGED <<script, input, vulnerabilities, annotations, external_ids,
                   uuids, testmode, idx, requests>>

ETR_Next == ETR_Summary \/ ETR_Details

ETR_Spec == ETR_Init /\ [][ETR_Next]_vars

-----------------------------------------------------------------------------
(* Properties of extract_test_result.py *)

ETR_Run == script = "extract_test_result"

\* the four counters of the document, 0 for an absent one
ETR_expected_summary(data) ==
    [total_tests |-> get(data, "numTotalTests", 0),
     passed_tests |-> get(data, "numPassedTests", 0),
     failed_tests |-> get(data, "numFailedTests", 0),
     todo_tests |-> get(data, "numTodoTests", 0)]

\* C12: on a well-formed document, with or without test cases, and for
\* every filter_status, extract_test_summary returns without raising and
\* its four counters are those of the document, 0 for an absent one; so
\* extract_failure_details does not raise either.
C12_SummaryNeverRaises ==
    (ETR_Run /\ input.file.exists) =>
        /\ pc # "raised"
        /\ pc = "details" =>
               returned.summary = ETR_expected_summary(input.file.data)

-----------------------------------------------------------------------------
(* The annotation builders of the two lint scripts, called on their own:   *)
(* Lint_groovy_report.process_annotations and the annotation loop of       *)
(* linting_error_report.main                                               *)

\* findings in a report given to a builder
MaxLintErrs == 2

\* the summary limit of Lint_groovy_report.process_annotations
summary_limit == 200

RECURSIVE Repeat(_, _)
Repeat(c, n) ==
    IF n = 0 THEN ""
    ELSE LET half == Repeat(c, n \div 2)
         IN half \o half \o (IF n % 2 = 1 THEN c ELSE "")

\* lengths of a finding's text: short, and around the limit
TextLens == {1, summary_limit - 1, summary_limit, summary_limit + 1}

\* severities of a Groovy lint finding: the three known words in several
\* cases, an unknown word, the empty word, and none at all
SeverityWords == {"info", "warning", "error", "INFO", "Warning", "ERROR",
                  "critical", ""}

\* the summary of such a finding is "[R] " followed by msg
AB_LintErrors ==
    {sev @@ [line |-> 1, rule |-> "R", msg |-> Repeat("m", n - 4)] :
        sev \in Optional("severity", SeverityWords), n \in TextLens \ {1}}
    \cup {sev @@ [line |-> 1, rule |-> "R", msg |-> "m"] :
            sev \in Optional("severity", SeverityWords)}

AB_FormatChanges ==
    {[LineNumber |-> 1, FormatDescription |-> Repeat("d", n)] : n \in TextLens}

AB_Inputs ==
    {[builder |-> "process_annotations",
      report |-> <<[name |-> "a", errors |-> es]>>] :
        es \in SeqsUpTo(AB_LintErrors, MaxLintErrs)}
    \cup {[builder |-> "annotation_loop",
           report |-> <<[FileName |-> "a", FileChanges |-> cs]>>] :
            cs \in SeqsUpTo(AB_FormatChanges, MaxLintErrs)}

AB_Init == \E in \in AB_Inputs : InitCall(in.builder, in.report)

\* Lint_groovy_report.process_annotations(report_data, search_path, set())
AB_process_annotations ==
    /\ script = "process_annotations"
    /\ pc = "call"
    /\ LET r == LG_process_annotations(input, {}, 0, <<>>)
       IN /\ annotations' = r.annotations
          /\ external_ids' = r.external_ids
          /\ uuids' = r.uuids
          /\ stdout' = r.stdout
          /\ returned' = r.annotations
    /\ pc' = "done"
    /\ UNCHANGED <<script, input, vulnerabilities, testmode, idx, requests,
                   exit_code>>

\* linting_error_report.main, lines 130-175
AB_annotation_loop ==
    /\ script = "annotation_loop"
    /\ pc = "call"
    /\ LET r == LE_build_annotations(input, <<>>)
       IN /\ annotations' = r.annotations
          /\ external_ids' = r.external_ids
          /\ uuids' = r.uuids
          /\ stdout' = r.stdout
          /\ returned' = r.annotations
          /\ pc' = IF r.raised THEN "raised" ELSE "done"
    /\ UNCHANGED <<script, input, vulnerabilities, testmode, idx, requests,
                   exit_code>>

AB_Next == AB_process_annotations \/ AB_annotation_loop

AB_Spec == AB_Init /\ [][AB_Next]_vars

\* the errors the Groovy builder was called on, in order
AB_errors == input[1].errors

\* the severity table of the claim
SeverityOf(error) ==
    LET sev == get(error, "severity", "")
    IN CASE sev \in {"info", "INFO"} -> "LOW"
         [] sev \in {"warning", "Warning"} -> "MEDIUM"
         [] sev \in {"error", "ERROR"} -> "HIGH"
         [] OTHER -> "LOW"

\* C13: process_annotations maps the severity of a finding without regard
\* to case: info to LOW, warning to MEDIUM, error to HIGH, and every other
\* or absent severity to LOW.
C13_SeverityMapping ==
    (script = "process_annotations" /\ pc = "done") =>
        /\ Len(returned) = Len(AB_errors)
        /\ \A i \in 1..Len(returned) :
               returned[i].severity = SeverityOf(AB_errors[i])

C13_Witness ==
    /\ script = "process_annotations" /\ pc = "done"
    /\ Len(returned) = 2
    /\ "severity" \notin DOMAIN AB_errors[1] /\ returned[1].severity = "LOW"
    /\ get(AB_errors[2], "severity", "") = "Warning"
    /\ returned[2].severity = "MEDIUM"

-----------------------------------------------------------------------------
(* Properties of the annotations sent by the four scripts *)

BitbucketSeverities == {"LOW", "MEDIUM", "HIGH"}
BitbucketAnnotationTypes == {"CODE_SMELL", "VULNERABILITY"}

\* C14: every annotation sent by any of the scripts has a severity among
\* LOW, MEDIUM, HIGH and an annotation_type among CODE_SMELL, VULNERABILITY,
\* whatever the severity of the audit finding it is built from.
C14_SentAnnotationsUseTheEnums ==
    \A i \in 1..Len(requests) :
        requests[i].method = "POST" =>
            \A k \in 1..Len(requests[i].payload) :
                /\ requests[i].payload[k].severity \in BitbucketSeverities
                /\ requests[i].payload[k].annotation_type
                       \in BitbucketAnnotationTypes

-----------------------------------------------------------------------------
(* Properties of npm_audit.py on a report without vulnerabilities *)

\* the audit report exists and its "vulnerabilities" object is absent or
\* empty
NoVulnerabilitiesInput ==
    script = "npm_audit" /\ input.report.exists /\ input.report.files = <<>>

NoVulnerabilitiesSteps ==
    /\ pc # "load" => \E i \in 1..Len(stdout) : stdout[i] = "No vulnerabilities found."
    /\ \A i \in 1..Len(requests) :
           /\ requests[i].method = "PUT"
           /\ requests[i].payload[1].value = 0

\* C15 as stated: on an audit report without vulnerabilities the run prints
\* "No vulnerabilities found.", sends no annotation POST, sends the summary
\* PUT with 0 as the number of vulnerabilities and then exits with status 0.
C15_NoVulnerabilitiesExitsZero ==
    NoVulnerabilitiesInput =>
        /\ NoVulnerabilitiesSteps
        /\ Exited => (Len(requests) = 1 /\ exit_code = 0)

\* C15, amended: as above, but the exit status is 0 only when the summary
\* PUT succeeded; when the PUT fails the run exits with status 1.
C15_NoVulnerabilitiesExitsAfterPut ==
    NoVulnerabilitiesInput =>
        /\ NoVulnerabilitiesSteps
        /\ Exited => /\ Len(requests) = 1
                     /\ exit_code = IF requests[1].result = "ok" THEN 0 ELSE 1

C15_Witness ==
    /\ NoVulnerabilitiesInput
    /\ Len(requests) = 1 /\ requests[1].result = "ok"
    /\ stdout = <<"No vulnerabilities found.">>
    /\ exit_code = 0

-----------------------------------------------------------------------------
(* python/extract_build_error_log_messages.py.  The build log is a list of *)
(* lines, each a text; the three shell pipelines are modelled by what grep, *)
(* sort -u and tail do to those lines.                                      *)

Whitespace == {" ", "\t"}
WordChars == UpperLetters \cup LowerLetters \cup Digits \cup {"_"}

\* str.strip()
RECURSIVE strip(_)
strip(text) ==
    IF text = <<>> THEN <<>>
    ELSE IF text[1] \in Whitespace THEN strip(Tail(text))
    ELSE IF text[Len(text)] \in Whitespace THEN strip(SubSeq(text, 1, Len(text) - 1))
    ELSE text

\* a text with its letters in lower case, as grep -i compares it
lower_text(text) == [i \in 1..Len(text) |-> lower_char(text[i])]

\* grep -i pattern, the pattern being plain text
grep_i(line, pattern) == contains(lower_text(line), lower_text(pattern))

\* grep -iE '(\s+error|error\s+|\berror\b)'
grep_error(line) ==
    LET l == lower_text(line)
        n == Len(l)
    IN \E i \in 1..(n - 4) :
          /\ SubSeq(l, i, i + 4) = Chars("error")
          /\ \/ i > 1 /\ l[i - 1] \in Whitespace
             \/ i + 5 <= n /\ l[i + 5] \in Whitespace
             \/ /\ i = 1 \/ l[i - 1] \notin WordChars
                /\ i + 5 > n \/ l[i + 5] \notin WordChars

\* grep -Ev keyword for each of the keywords, a keyword being plain text
grep_v(line, exclude_keywords) ==
    \A k \in 1..Len(exclude_keywords) : ~contains(line, exclude_keywords[k])

\* number of digits of text that end at position i
BackRun(text, i) ==
    LET stops == {j \in 0..i : j = 0 \/ text[j] \notin Digits}
    IN i - (CHOOSE j \in stops : \A l \in stops : j >= l)

\* re.search(r"\((\d+),\d+\)$", file_path_raw): the position of the opening
\* parenthesis and the digits of group 1, position 0 when there is no match
suffix_search(file_path_raw) ==
    LET n == Len(file_path_raw)
        cols == BackRun(file_path_raw, n - 1)
        rows == BackRun(file_path_raw, n - 2 - cols)
        open == n - 2 - cols - rows
    IN IF /\ n >= 5 /\ file_path_raw[n] = ")"
          /\ cols >= 1 /\ n - 1 - cols >= 1 /\ file_path_raw[n - 1 - cols] = ","
          /\ rows >= 1 /\ open >= 1 /\ file_path_raw[open] = "("
       THEN [open |-> open, group1 |-> SubSeq(file_path_raw, open + 1, open + rows)]
       ELSE [open |-> 0, group1 |-> <<>>]

EL_template ==
    [build_result |-> <<>>, system_error_messages |-> <<>>, exit_code |-> <<>>,
     unity_error |-> [errors |-> <<>>]]

\* lines 112-154: the loop body for one line of the error pipeline's output.
\* acc.file_path is the loop's local variable of that name, which line 139
\* alone assigns; acc.raised records the UnboundLocalError of line 144
EL_classify(acc, raw_line, debug) ==
    IF acc.raised \/ raw_line = <<>> THEN acc
    ELSE LET line == strip(raw_line)
             parts == split(line, ":")
             file_path_raw == strip(parts[1])
             error_code == strip(parts[2])
             error_description == strip(parts[3])
             match == suffix_search(file_path_raw)
             file_path == IF match.open > 0
                          THEN [bound |-> TRUE,
                                value |-> SubSeq(file_path_raw, 1, match.open - 1)]
                          ELSE acc.file_path
             line_number == IF match.open > 0 THEN match.group1 ELSE Chars("N/A")
             seen == [acc EXCEPT !.out = @ \o IF debug
                                              THEN <<<<"Processing Line (repr): ", raw_line>>>>
                                              ELSE <<>>]
         IN IF ~contains(line, Chars("Asset"))
            THEN [seen EXCEPT !.system_error_messages = Append(@, strip(line))]
            ELSE LET found == [seen EXCEPT !.out = @ \o IF debug
                                                  THEN <<<<" Found 'Asset' in line!">>>>
                                                  ELSE <<>>]
                 IN IF Len(parts) # 3 THEN found
                    ELSE IF ~file_path.bound
                         THEN [found EXCEPT !.raised = TRUE]
                    ELSE IF /\ file_path.value # <<>> /\ error_code # <<>>
                            /\ error_description # <<>>
                         THEN [found EXCEPT
                                 !.file_path = file_path,
                                 !.errors = Append(@,
                                     [file_path |-> file_path.value,
                                      line_number |-> line_number,
                                      error_code |-> error_code,
                                      error_description |-> error_description])]
                    ELSE [found EXCEPT !.file_path = file_path]

\* lines of the build log
MaxLogLines == 3

\* lines 66, 91-102: grep -i 'Build Finished, Result:' and its reading
EL_build_result_stdout(log) ==
    LET hit(line) == grep_i(line, Chars("Build Finished, Result:"))
    IN SelectSeq(log, hit)

EL_build_result(log) ==
    LET out == EL_build_result_stdout(log)
        has(word) == \E i \in 1..Len(out) : contains(out[i], Chars(word))
    IN IF has("Success") THEN Chars("Success")
       ELSE IF has("Failure") THEN Chars("Failure")
       ELSE Chars("Unexpected Termination")

\* lines 75-79: the lines the error pipeline lets through, before sort -u
EL_error_lines(log, exclude_keywords) ==
    {log[i] : i \in {j \in 1..Len(log) :
                        grep_error(log[j]) /\ grep_v(log[j], exclude_keywords)}}

\* sort -u: the distinct lines, in the order of the locale's collation,
\* which is any order as far as the script can tell
EL_sorted(lines) ==
    {order \in [1..Cardinality(lines) -> lines] :
        \A i, j \in DOMAIN order : order[i] = order[j] => i = j}

\* lines 82, 158-162: grep -A 1 '##### ExitCode' | tail -n 1, stripped
EL_exit_code(log) ==
    LET hits == {i \in 1..Len(log) : contains(log[i], Chars("##### ExitCode"))}
        last == CHOOSE i \in hits : \A j \in hits : i >= j
    IN IF hits = {} THEN <<>>
       ELSE strip(log[Min(last + 1, Len(log))])

\* extract_error_log, given the order in which sort -u put the error lines:
\* whether it raised (and so left through sys.exit(1)), the error_messages
\* object it returns and the lines it printed
extract_error_log(log, exclude_keywords, debug, order) ==
    LET Step(acc, i) == EL_classify(acc, order[i], debug)
        start == [raised |-> FALSE,
                  file_path |-> [bound |-> FALSE, value |-> <<>>],
                  system_error_messages |-> <<>>,
                  errors |-> <<>>,
                  out |-> IF debug
                          THEN <<<<"Extracting build error messages from">>>>
                               \o (IF EL_build_result_stdout(log) # <<>>
                                   THEN <<<<"Build Result Processing",
                                            EL_build_result_stdout(log)>>>>
                                   ELSE <<>>)
                               \o (IF order # <<>>
                                   THEN <<<<"Error Message Processing", order>>>>
                                   ELSE <<>>)
                          ELSE <<>>]
        done == FoldRange(Step, 1, Len(order), start)
        error_messages ==
            [EL_template EXCEPT
               !.build_result = EL_build_result(log),
               !.system_error_messages = done.system_error_messages,
               !.unity_error = [errors |-> done.errors],
               !.exit_code = EL_exit_code(log)]
    IN IF done.raised
       THEN [raised |-> TRUE, value |-> EL_template,
             out |-> Append(done.out, <<"An unexpected exception occurred">>)]
       ELSE [raised |-> FALSE, value |-> error_messages,
             out |-> done.out \o IF debug THEN <<<<"ERROR_TEMPLATE", error_messages>>>>
                                 ELSE <<>>]

\* the lines a build log is made of
EL_unity_lines ==
    {Chars("Assets/a.cs(1,17): error CS1: m"),
     Chars("Assets/a.cs(1,17): error CS1: m: n"),
     Chars(" Assets/c.cs(12,3) : error CS3 :  m "),
     Chars("Assets/b.cs: error CS2: m")}

EL_other_lines ==
    {Chars("error: disk"), Chars("Asset terror"), <<>>,
     Chars("Build Finished, Result: Success"),
     Chars("Build Finished, Result: Failure"),
     Chars("##### ExitCode"), Chars("1")}

\* every log without options; the logs of Unity lines with --exclude and
\* --debug as well
EL_Inputs ==
    [log : SeqsUpTo(EL_unity_lines \cup EL_other_lines, MaxLogLines),
     exclude : {<<>>}, debug : {FALSE}]
    \cup [log : SeqsUpTo(EL_unity_lines, MaxLogLines),
          exclude : {<<>>, <<Chars("CS2")>>}, debug : BOOLEAN]

EL_Init == \E in \in EL_Inputs : InitCall("extract_error_log", in)

\* extract_error_log(args.build_log_path, args.exclude, args.debug)
EL_Call ==
    /\ script = "extract_error_log"
    /\ pc = "call"
    /\ \E order \in EL_sorted(EL_error_lines(input.log, input.exclude)) :
         LET r == extract_error_log(input.log, input.exclude, input.debug, order)
         IN /\ returned' = [order |-> order, error_messages |-> r.value]
            /\ stdout' = stdout \o r.out
            /\ pc' = IF r.raised THEN "exited" ELSE "done"
            /\ exit_code' = IF r.raised THEN 1 ELSE 0
    /\ UNCHANGED <<script, input, vulnerabilities, annotations, external_ids,
                   uuids, testmode, idx, requests>>

EL_Spec == EL_Init /\ [][EL_Call]_vars

-----------------------------------------------------------------------------
(* Properties of extract_error_log *)

\* the lines of the model's logs that have the form
\* <path>(<line>,<col>): <error code>: <message>, with their four parts
EL_form_lines ==
    {[text |-> Chars("Assets/a.cs(1,17): error CS1: m"),
      entry |-> [file_path |-> Chars("Assets/a.cs"), line_number |-> Chars("1"),
                 error_code |-> Chars("error CS1"),
                 error_description |-> Chars("m")]],
     [text |-> Chars("Assets/a.cs(1,17): error CS1: m: n"),
      entry |-> [file_path |-> Chars("Assets/a.cs"), line_number |-> Chars("1"),
                 error_code |-> Chars("error CS1"),
                 error_description |-> Chars("m: n")]],
     [text |-> Chars(" Assets/c.cs(12,3) : error CS3 :  m "),
      entry |-> [file_path |-> Chars("Assets/c.cs"), line_number |-> Chars("12"),
                 error_code |-> Chars("error CS3"),
                 error_description |-> Chars("m")]]}

EL_Returned == script = "extract_error_log" /\ pc = "done"

\* C16: for every error line that contains 'Asset' and has the form
\* <path>(<line>,<col>): <error code>: <message>, the returned object holds
\* exactly one unity_error entry made of the path without its suffix, the
\* line as a string, the trimmed error code and the trimmed message.
C16_UnityLineGivesOneEntry ==
    EL_Returned =>
        \A f \in EL_form_lines :
            (\E i \in 1..Len(returned.order) : returned.order[i] = f.text) =>
                LET errors == returned.error_messages.unity_error.errors
                IN Cardinality({k \in 1..Len(errors) : errors[k] = f.entry}) = 1

\* the test cases of a document as the claim lists them: per entry, those of
\* "assertionResults", or of the nested "testResults" when the former is
\* absent or empty, or none
RECURSIVE CasesInOrder(_)
CasesInOrder(entries) ==
    IF entries = <<>> THEN <<>>
    ELSE LET entry == Head(entries)
             own == IF "assertionResults" \in DOMAIN entry
                    THEN entry.assertionResults ELSE <<>>
             nested == IF "testResults" \in DOMAIN entry
                       THEN entry.testResults ELSE <<>>
         IN (IF own # <<>> THEN own ELSE nested) \o CasesInOrder(Tail(entries))

ETR_entries == IF "testResults" \in DOMAIN input.file.data
               THEN input.file.data.testResults ELSE <<>>

\* C17: called without a filter on a document of either shape,
\* extract_test_summary returns, and its details list holds exactly one
\* record per test case, in document order, with 'Unknown Test' for a
\* missing title and 'unknown' for a missing status.
C17_OneRecordPerCase ==
    [][(ETR_Run /\ pc = "call" /\ input.file.exists /\ input.filter_status = None) =>
          /\ pc' = "details"
          /\ LET cases == CasesInOrder(ETR_entries)
                 details == returned'.details
             IN /\ Len(details) = Len(cases)
                /\ \A i \in 1..Len(cases) :
                      /\ details[i].test_name =
                            IF "title" \in DOMAIN cases[i] THEN cases[i].title
                            ELSE "Unknown Test"
                      /\ details[i].status =
                            IF "status" \in DOMAIN cases[i] THEN cases[i].status
                            ELSE "unknown"]_vars

C17_Witness ==
    /\ ETR_Run /\ pc = "details" /\ input.filter_status = None
    /\ Len(ETR_entries) = 2
    /\ "assertionResults" \in DOMAIN ETR_entries[1]
    /\ ETR_entries[1].assertionResults # <<>>
    /\ "assertionResults" \notin DOMAIN ETR_entries[2]
    /\ returned.details = <<[test_name |-> "Unknown Test", status |-> "todo"],
                            [test_name |-> "t1", status |-> "unknown"]>>

\* the failure messages of the document's test cases titled test_name
MessagesTitled(test_name) ==
    UNION {{get(c, "failureMessages", <<>>)[m] :
               m \in 1..Len(get(c, "failureMessages", <<>>))}
           : c \in {CasesInOrder(ETR_entries)[i] :
                       i \in {j \in 1..Len(CasesInOrder(ETR_entries)) :
                                 get(CasesInOrder(ETR_entries)[j], "title", "")
                                     = test_name}}}

\* a message without its lines that contain 'node_module'
WithoutDependencyLines(message) ==
    LET own(line) == ~contains(line, Chars("node_module"))
    IN join(SelectSeq(split(message, "\n"), own), <<"\n">>)

\* the line numbers of the locations the model's messages give in lines
\* that contain 'node_module'
DependencyLineNumbers == {8, 9}

\* C18: the lines of a failure message that contain 'node_module' are
\* removed before the message is cleaned and searched for a location: the
\* description is the cleaned text of the other lines and holds nothing of
\* such a line, and source_file and line_number never come from a location
\* that only such a line gives.
C18_DependencyLinesAreIgnored ==
    (ETR_Run /\ pc = "done") =>
        \A i \in 1..Len(returned) :
            /\ \E m \in MessagesTitled(returned[i].test_name) :
                   returned[i].description =
                       sanitize_description(WithoutDependencyLines(m), max_length)
            /\ ~contains(returned[i].description, Chars("node_module"))
            /\ ~contains(returned[i].source_file, Chars("node_module"))
            /\ "int" \in DOMAIN returned[i].line_number =>
                   returned[i].line_number.int \notin DependencyLineNumbers

C18_Witness ==
    /\ ETR_Run /\ pc = "done"
    /\ Len(returned) = 1
    /\ MessagesTitled("t1")
           = {Chars("at /w/node_modules/j.js:9:9\nat /w/client/a.js:1:2")}
    /\ returned[1].description = Chars("at /w/client/a.js:1:2")
    /\ returned[1].source_file = Chars("client/a.js")
    /\ returned[1].line_number = [int |-> 1]

-----------------------------------------------------------------------------
(* Properties of the summaries built by the lint annotation builders *)

\* the text a builder makes the summary of its i-th finding from
FindingText(i) ==
    IF script = "process_annotations"
    THEN "[" \o input[1].errors[i].rule \o "] " \o input[1].errors[i].msg
    ELSE input[1].FileChanges[i].FormatDescription

\* C19: both lint annotation builders bound the summary: a text of more
\* than 200 characters is cut to its first 200 characters followed by
\* '...', a text of at most 200 characters is sent unchanged.
C19_SummaryIsBounded ==
    (script \in {"process_annotations", "annotation_loop"} /\ pc = "done") =>
        \A i \in 1..Len(returned) :
            returned[i].summary =
                IF Len(FindingText(i)) > summary_limit
                THEN SubSeq(FindingText(i), 1, summary_limit) \o "..."
                ELSE FindingText(i)

-----------------------------------------------------------------------------
(* python/JsReporting/extract_coverage_rates.py *)

\* different percentages a coverage summary may hold
PctSteps == 3

Pcts == {(100 * i) \div (PctSteps - 1) : i \in 0..(PctSteps - 1)}

CoverageKinds == {"lines", "statements", "functions", "branches"}

\* one kind's entry of the "total" object
CoverageEntry(pct) == [total |-> 10, covered |-> 5, skipped |-> 0, pct |-> pct]

\* the summaries with the four kinds, "total" beside a per-file entry
FullSummaries ==
    {[total |-> [k \in CoverageKinds |-> CoverageEntry(p[k])],
      file |-> [k \in CoverageKinds |-> CoverageEntry(0)]] :
        p \in [CoverageKinds -> Pcts]}

\* summaries that lack "total", a kind, or a kind's "pct"
PartialSummaries ==
    {<<>>,
     [total |-> [k \in CoverageKinds \ {"branches"} |-> CoverageEntry(0)]],
     [total |-> [k \in CoverageKinds |->
                    IF k = "lines" THEN [total |-> 10] ELSE CoverageEntry(0)]]}

CR_Inputs ==
    [file : {ETR_missing} \cup {ETR_file(d) : d \in FullSummaries \cup PartialSummaries},
     debug : BOOLEAN]

\* extract_coverage_rates with the functions percentage read for statements
extract_coverage_rates_copy_paste(file, debug) ==
    IF \/ ~file.exists
       \/ "total" \notin DOMAIN file.data
       \/ \E k \in CoverageKinds :
             \/ k \notin DOMAIN file.data.total
             \/ "pct" \notin DOMAIN file.data.total[k]
    THEN [raised |-> TRUE, value |-> <<>>, out |-> <<>>]
    ELSE LET coverage_rates ==
                 [lines |-> file.data.total.lines.pct,
                  statements |-> file.data.total.functions.pct,
                  functions |-> file.data.total.functions.pct,
                  branches |-> file.data.total.branches.pct]
         IN [raised |-> FALSE, value |-> coverage_rates,
             out |-> IF debug
                     THEN <<<<"Coverage debug Info:">>, <<coverage_rates>>>>
                     ELSE <<>>]

\* whether it raised (open, or a KeyError of lines 38-41), the mapping it
\* returns and the lines it printed
extract_coverage_rates(file, debug) ==
    IF \/ ~file.exists
       \/ "total" \notin DOMAIN file.data
       \/ \E k \in CoverageKinds :
             \/ k \notin DOMAIN file.data.total
             \/ "pct" \notin DOMAIN file.data.total[k]
    THEN [raised |-> TRUE, value |-> <<>>, out |-> <<>>]
    ELSE LET coverage_rates ==
                 [lines |-> file.data.total.lines.pct,
                  statements |-> file.data.total.statements.pct,
                  functions |-> file.data.total.functions.pct,
                  branches |-> file.data.total.branches.pct]
         IN [raised |-> FALSE, value |-> coverage_rates,
             out |-> IF debug
                     THEN <<<<"Coverage debug Info:">>, <<coverage_rates>>>>
                     ELSE <<>>]

\* str.capitalize on the four keys
capitalize(key) ==
    CASE key = "lines" -> "Lines"
      [] key = "statements" -> "Statements"
      [] key = "functions" -> "Functions"
      [] key = "branches" -> "Branches"

\* main, lines 66-68: the result's items in insertion order
CR_main_lines(result) ==
    [i \in 1..4 |->
        LET key == <<"lines", "statements", "functions", "branches">>[i]
        IN <<capitalize(key), " Coverage: ", result[key], "%">>]

CR_Init == \E in \in CR_Inputs : InitCall("extract_coverage_rates", in)

\* main(args.file_path, args.debug)
CR_Call ==
    /\ script = "extract_coverage_rates"
    /\ pc = "call"
    /\ LET r == extract_coverage_rates(input.file, input.debug)
       IN /\ returned' = r.value
          /\ stdout' = stdout \o r.out
                       \o IF ~r.raised /\ input.debug THEN CR_main_lines(r.value)
                          ELSE <<>>
          /\ pc' = IF r.raised THEN "raised" ELSE "done"
          /\ exit_code' = IF r.raised THEN 1 ELSE 0
    /\ UNCHANGED <<script, input, vulnerabilities, annotations, external_ids,
                   uuids, testmode, idx, requests>>

CR_Spec == CR_Init /\ [][CR_Call]_vars

\* the document has a "total" object with the four kinds, each with a pct
HasFourPcts(file) ==
    /\ file.exists
    /\ "total" \in DOMAIN file.data
    /\ \A k \in CoverageKinds :
          k \in DOMAIN file.data.total /\ "pct" \in DOMAIN file.data.total[k]

-----------------------------------------------------------------------------
(* Properties of extract_failure_details *)

\* the source_file of a record whose message gives no location: the name of
\* the enclosing entry, relative to the project folder
FD_name_of(entry) ==
    FD_relative(get(entry, "name", Chars("Unknown File")),
                input.project_folder_name)

\* C21: in a document of one test file, a record whose failure message holds
\* no 'at <file>:<line>:<col>' pattern (line_number 'N/A') has the source_file
\* derived from that test file's name, never the file of a location matched
\* in an earlier failure message or an earlier assertion of the same file.
C21_LocationIsTheRecordsOwn ==
    (ETR_Run /\ pc = "done" /\ Len(ETR_entries) = 1) =>
        \A i \in 1..Len(returned) :
            returned[i].line_number = [str |-> "N/A"] =>
                returned[i].source_file = FD_name_of(ETR_entries[1])

\* the number of failure messages of the failed test cases of a document
FailedMessageCount ==
    LET cases == CasesInOrder(ETR_entries)
    IN Sum([i \in 1..Len(cases) |->
               IF get(cases[i], "status", "unknown") = "failed"
               THEN Len(get(cases[i], "failureMessages", <<>>))
               ELSE 0])

\* C22: extract_failure_details returns exactly one record per failure
\* message of each failed assertion, also when two failed assertions have
\* the same title, and none for an assertion that did not fail.
C22_OneRecordPerFailureMessage ==
    (ETR_Run /\ pc = "done") => Len(returned) = FailedMessageCount

\* the non-empty lines the error pipeline handed to the loop
EL_nonempty_lines == {i \in 1..Len(returned.order) : returned.order[i] # <<>>}

\* C23: extract_error_log never aborts on an error line and classifies every
\* non-empty error line exactly once: the unity_error entries and the
\* system_error_messages are as many as those lines, and the fields of a
\* unity_error entry are all parts of one and the same line.
C23_EveryLineClassifiedOnce ==
    (script = "extract_error_log" /\ pc # "call") =>
        /\ pc = "done"
        /\ LET errors == returned.error_messages.unity_error.errors
               system == returned.error_messages.system_error_messages
           IN /\ Len(errors) + Len(system) = Cardinality(EL_nonempty_lines)
              /\ \A k \in 1..Len(errors) :
                    \E i \in EL_nonempty_lines :
                        /\ contains(returned.order[i], errors[k].file_path)
                        /\ contains(returned.order[i], errors[k].error_code)
                        /\ contains(returned.order[i], errors[k].error_description)

-----------------------------------------------------------------------------
(* Termination of the submitting scripts *)

\* the lengths of the long lists of the runs followed to their end: over
\* the total limit
FairLens == {max_annotations + MaxOver}

\* the runs followed to their end: reports of at most one finding, or of a
\* long list of findings
FairInit ==
    \/ \E in \in {[groovy |-> g, jenkins |-> j] :
                    g \in {Missing} \cup {OnDisk(r) : r \in LintReports(LintErrors, 1, 1)},
                    j \in {Missing} \cup {OnDisk(r) : r \in LintReports(LintErrors, 1, 1)}}
                \cup {[groovy |-> OnDisk(LongLintReport(n)), jenkins |-> OnDisk(<<>>)] :
                        n \in FairLens} :
          InitRun("Lint_groovy_report", in)
    \/ \E in \in {[Result |-> res, report |-> f] :
                    res \in {"Pass", "Fail"},
                    f \in {Missing} \cup {OnDisk(r) : r \in FormatReports(1, 1)}}
                \cup {[Result |-> "Fail", report |-> OnDisk(LongFormatReport(n))] :
                        n \in FairLens} :
          InitRun("linting_error_report", in)
    \/ \E in \in {[report |-> f] :
                    f \in {Missing} \cup {OnDisk(r) : r \in AuditReports(1, 1)}
                          \cup {OnDisk(LongAuditReport(n)) : n \in FairLens}} :
          InitRun("npm_audit", in)
    \/ \E in \in {[coverage_exists |-> c, PlayMode |-> p, EditMode |-> e] :
                    c \in BOOLEAN, p \in TestResultFiles(1), e \in TestResultFiles(1)}
                \cup {[coverage_exists |-> TRUE,
                       PlayMode |-> OnDisk(LongTestResults(p[1])),
                       EditMode |-> OnDisk(LongTestResults(p[2]))] :
                        p \in FairLens \X (FairLens \cup {0})} :
          InitRun("create_bitbucket_test_report", in)

\* a run is one sequential process: as long as a step is possible the
\* process takes one, every HTTP call returning or raising
FairSpec == FairInit /\ [][Next]_vars /\ WF_vars(Next)

Terminated == pc \in {"done", "failed"} /\ Exited

\* the annotation lists of a run, and the most batches one list is sent in
AnnotationLists == 1..Len(mode)
max_batches == max_annotations \div batch_size

\* no two requests of the run are the same call: same method, same list and
\* same batch
NoRequestRepeated ==
    \A i, j \in 1..Len(requests) :
        (/\ requests[i].method = requests[j].method
         /\ requests[i].list = requests[j].list
         /\ requests[i].batch = requests[j].batch) => i = j

\* C24: every run of a submitting script reaches DONE or FAILED, each HTTP
\* call returning or raising, after at most one summary PUT and at most 10
\* annotation POSTs per annotation list, no request being repeated.
C24_EveryRunTerminates ==
    /\ <>Terminated
    /\ [](/\ Cardinality({i \in 1..Len(requests) : requests[i].method = "PUT"}) <= 1
          /\ \A l \in AnnotationLists : Cardinality(PostsOf(l)) <= max_batches
          /\ NoRequestRepeated)

C24_Witness ==
    /\ Terminated
    /\ script = "create_bitbucket_test_report"
    /\ Len(requests) > max_batches
    /\ requests[1].method = "PUT"
    /\ Cardinality(PostsOf(1)) = max_batches
    /\ Cardinality(PostsOf(2)) >= 1

-----------------------------------------------------------------------------
(* Properties of the summary reports *)

\* the value of the entry titled title of a report's data
DataValue(data, title) ==
    data[CHOOSE i \in 1..Len(data) : data[i].title = title].value

\* the value of the data entry titled title in the payload of the PUT
SentValue(title) == DataValue(requests[1].payload, title)

\* C25: in npm_audit the 'Number of vulnerabilities' sent in the summary
\* report equals the number of findings extracted from the audit document,
\* which is the number of annotations built before truncation.
C25_SummaryCountsFindings ==
    (script = "npm_audit" /\ pc \in {"post", "done"}) =>
        SentValue("Number of vulnerabilities") = Len(annotations)

\* C26: in linting_error_report with Result 'Pass' the run reads no lint
\* report (a missing one changes nothing), sends exactly one summary PUT with
\* result PASSED and no annotation POST, and exits with status 0 if the PUT
\* succeeded; annotations are built and POSTed only when Result is 'Fail'
\* and the summary PUT succeeded.
C26_PassSendsOnlyTheSummary ==
    script = "linting_error_report" =>
        /\ input.Result = "Pass" =>
              /\ pc \in {"load", "put", "done", "failed"}
              /\ stdout = <<>>
              /\ annotations = <<>>
              /\ Len(requests) <= 1
              /\ Len(requests) = 1 =>
                    /\ requests[1].method = "PUT"
                    /\ requests[1].payload.result = "PASSED"
                    /\ requests[1].payload.data[1].value = "No report"
              /\ Exited =>
                    /\ Len(requests) = 1
                    /\ exit_code = 0 <=> requests[1].result = "ok"
        /\ (annotations # <<>> \/ PostsOf(1) # {}) =>
              /\ input.Result = "Fail"
              /\ requests[1].method = "PUT" /\ requests[1].result = "ok"

C26_Witness ==
    /\ script = "linting_error_report"
    /\ input.Result = "Pass"
    /\ ~input.report.exists
    /\ pc = "done" /\ exit_code = 0
    /\ Len(requests) = 1

\* the failed count a result file reports
FailedCount(file) ==
    Cardinality({i \in 1..Len(file.files) : file.files[i].result = "Failed"})

\* C27: in create_bitbucket_test_report the summary's result is 'FAILED' if
\* and only if the EditMode or the PlayMode result file reports a failed
\* count greater than 0, otherwise 'PASSED'; each 'All <mode> tests passed?'
\* boolean is true exactly when that mode's failed count is 0, so the result
\* is 'PASSED' exactly when both booleans are true.
C27_ResultFollowsFailedCounts ==
    (script = "create_bitbucket_test_report" /\ Len(requests) >= 1) =>
        LET report == requests[1].payload
            edit_passed == DataValue(report.data, "All EditMode tests passed?")
            play_passed == DataValue(report.data, "All PlayMode tests passed?")
        IN /\ report.result \in {"FAILED", "PASSED"}
           /\ report.result = "FAILED" <=>
                 (FailedCount(input.EditMode) > 0 \/ FailedCount(input.PlayMode) > 0)
           /\ edit_passed <=> FailedCount(input.EditMode) = 0
           /\ play_passed <=> FailedCount(input.PlayMode) = 0
           /\ report.result = "PASSED" <=> (edit_passed /\ play_passed)

C27_Witness ==
    /\ script = "create_bitbucket_test_report"
    /\ Len(requests) >= 1
    /\ requests[1].payload.result = "FAILED"
    /\ FailedCount(input.EditMode) = 0
    /\ FailedCount(input.PlayMode) > 0
    /\ DataValue(requests[1].payload.data, "All EditMode tests passed?")
    /\ ~DataValue(requests[1].payload.data, "All PlayMode tests passed?")

=============================================================================
